---------------------------- MODULE Spec2Model ----------------------------
(***************************************************************************)
(* yggdrasil-jumper: a state-machine model of the daemon's session         *)
(* spawner, bridge supervisor, rendezvous prober, external-address monitor *)
(* and of the packet inspector behind the lossy shortcut.                  *)
(*                                                                         *)
(* The module holds several specifications over one set of variables.      *)
(* Each specification drives one group of variables and leaves the other   *)
(* groups at their idle value:                                             *)
(*   SpecWhitelist  the whitelist step of spawn_new_sessions (session.rs)  *)
(*   SpecParse      parse_yggdrasil_packet walked over a stream prefix     *)
(*   SpecDpi        SendLossy / ReceiveLossy between two proxy threads     *)
(*   SpecStun       the external-address monitor (stun.rs)                 *)
(*   SpecInet       traverse_udp and the inet listener (network.rs)        *)
(*   SpecVarint     decode_varint on the encoding of a u64                 *)
(*   SpecTimeout    Timeout::new collected to its end (utils/timeout.rs)   *)
(*   SpecHandshake  try_session on both sides of a rendezvous              *)
(*   Spec           task life cycle: spawner, start_bridge, bridge,        *)
(*                  deferred clean-up and root cancellation                *)
(*   SpecShutdown   Spec with main woken once the cancellation guard is    *)
(*                  dropped (weak fairness of MainExit)                    *)
(***************************************************************************)
EXTENDS Integers, Sequences, FiniteSets, TLC

\* ---------------------------------------------------------------------
\* Sequence helpers
\* ---------------------------------------------------------------------

Min(a, b) ==
    IF a <= b THEN a ELSE b

Take(s, n) ==
    SubSeq(s, 1, Min(n, Len(s)))

Drop(s, n) ==
    SubSeq(s, Min(n, Len(s)) + 1, Len(s))

StartsWith(s, p) ==
    /\ Len(p) <= Len(s)
    /\ SubSeq(s, 1, Len(p)) = p

RECURSIVE Flatten(_)
Flatten(ss) ==
    IF ss = <<>> THEN <<>> ELSE Head(ss) \o Flatten(Tail(ss))

Zeros(n) ==
    [i \in 1..n |-> 0]

RemoveAt(s, i) ==
    SubSeq(s, 1, i - 1) \o SubSeq(s, i + 1, Len(s))

Last(s) ==
    s[Len(s)]

\* ---------------------------------------------------------------------
\* Variables
\* ---------------------------------------------------------------------

\* the whitelist step of the session spawner (session.rs, spawn_new_sessions)
VARIABLES
    wl_whitelist,   \* config.whitelist: <<>> for None, <<set>> for Some(set)
    wl_addr,        \* session.address of the session the loop is at
    wl_result       \* "idle" | "accepted" | "skipped"

wlVars ==
    <<wl_whitelist, wl_addr, wl_result>>

\* parse_yggdrasil_packet walked over a prefix of a stream
VARIABLES
    p_pkts,         \* the packets the stream was built from
    p_buf,          \* the prefix handed to the parser
    p_pos,          \* bytes consumed so far
    p_cuts,         \* packet ends reported so far (offsets into p_buf)
    p_last          \* result of the last call, or the idle marker

parseVars ==
    <<p_pkts, p_buf, p_pos, p_cuts, p_last>>

\* decode_varint applied to the encoding of a u64
VARIABLES
    vi_value,       \* the u64 to encode, as the set of the positions of its one bits
    vi_buf,         \* its canonical LEB128 encoding: seven bits a byte from the low end, 0x80 set on all bytes but the last
    vi_result       \* the result of decode_varint, or the idle marker

varintVars ==
    <<vi_value, vi_buf, vi_result>>

\* SendLossy / ReceiveLossy driven by the two threads of setup_proxy_tcp
VARIABLES
    d_pkts,         \* the packets the router wrote, in order
    d_in,           \* bytes of that stream the sender thread has not read yet
    d_reads,        \* reads the sender thread has made
    d_fallback,     \* config.yggdrasil_dpi_fallback_to_reliable
    s_skip,         \* SendLossy.skip
    s_pf,           \* SendLossy.permanent_fallback
    s_left,         \* bytes kept at the start of the sender's buffer (`left`)
    s_seen,         \* history: the sender has classified a packet already
    k_segs,         \* KCP stream segments not yet handed to the receiver
    k_open,         \* the last segment is still in snd_queue and can be merged into
    u_q,            \* direct datagrams in flight
    r_skip,         \* ReceiveLossy.skip
    r_backlog,      \* ReceiveLossy.backlog
    r_pf,           \* ReceiveLossy.permanent_fallback
    r_seen,         \* history: the receiver has classified a packet already
    d_out,          \* bytes written to the router-side TCP socket
    h_late,         \* history: the meta branch classified a packet after the first
    h_fb_calls      \* history: calls of SendLossy::send that began with permanent_fallback set

dpiVars ==
    <<d_pkts, d_in, d_reads, d_fallback, s_skip, s_pf, s_left, s_seen, k_segs, k_open,
      u_q, r_skip, r_backlog, r_pf, r_seen, d_out, h_late, h_fb_calls>>

\* the external-address monitor (stun.rs, monitor)
VARIABLES
    st_cfg,         \* config: yggdrasil_protocols, stun_randomize, and the listeners' local addresses
    st_servers,     \* `servers`: each with its tcp_status and udp_status
    st_external,    \* `external`: the mappings collected in the current pass
    st_i,           \* (local, protocol) pairs the current pass has done
    st_pc,          \* "pass" | "sleep" | "suspended"
    st_watch,       \* the value of the watch_external channel
    st_asked,       \* history: the lookups of the last (local, protocol) pair, in order, each with its answer
    st_seen         \* history: <<b>> when the last check of active_sessions in this suspension found a bridge (b) or none, <<>> before

stunVars ==
    <<st_cfg, st_servers, st_external, st_i, st_pc, st_watch, st_asked, st_seen>>

\* traverse_udp calls and the active_inet_traversal registry (network.rs)
VARIABLES
    tr_pc,          \* where each call is: "idle" | "lock" | "socket" | "loop" | "wait" | "done" | "dropped"
    tr_inet,        \* `inet` of each call: <<>> for None, <<session_id>> for Some
    tr_retry,       \* params.retry_count of each call
    tr_guard,       \* _drop_guard of each call is armed
    tr_prober,      \* counter, send_ack, got_remote_ack, last_error of each call; break: the loop was left
    tr_result,      \* what each call returned, <<>> before
    tr_map,         \* active_inet_traversal: session_id -> the call whose channel is registered
    tr_spawned,     \* removals spawned by drop guards and not yet run: <<call, session_id>>
    tr_h            \* history of each call: it inserted its entry, its removal ran, a SuccessResponse was delivered, its last socket error, iterations that sent, iterations that sent after the first SuccessResponse

inetVars ==
    <<tr_pc, tr_inet, tr_retry, tr_guard, tr_prober, tr_result, tr_map, tr_spawned,
      tr_h>>

\* one inbound packet on its way to the prober's match (network.rs)
VARIABLES
    rv_pkt,         \* the packet: its form, and for a STUN message the method, the session id of a jmpr transaction id, the secret of its MessageIntegrity, the class
    rv_path,        \* "socket": read from the connected socket; "listener": read by inet_listener
    rv_send_ack,    \* the prober is in ACK mode
    rv_out          \* the class handed to the match of the call, "None" when nothing is, "Idle" before

recvVars ==
    <<rv_pkt, rv_path, rv_send_ack, rv_out>>

\* session tasks, bridges, admin API peers and shutdown (session.rs, bridge.rs, cancellation.rs, main)
VARIABLES
    lf_pc,          \* each session task: "free" | "session" | "add_peer" | "accept" | "bridge" | "exit" | "ended"
    lf_addr,        \* the remote overlay address of each task
    lf_sessions,    \* active_sessions: the records <<address, stage>>
    lf_rec_rm,      \* removals spawned by _bridge_record_guard and not yet run: <<task, address>>
    lf_guard,       \* remove_peer_guard of each task: "none" | "armed" | "spawned" | "issued" | "done"
    lf_token,       \* the remove_peer future of each task holds an active cancellation token
    lf_wait,        \* the cancelled() future of each bridge: "none" | "waiting" | "missed" | "ready"
    lf_lock,        \* holder of the admin API write lock, <<>> when free
    lf_peers,       \* uris the router has as peers on behalf of start_bridge (one uri per task)
    lf_h,           \* history: uris the router added on add_peer, uris remove_peer was issued for, <<refused task, running bridge>> of every refused duplicate
    lf_main         \* main: "running" | "cancelling" | "exited"

lifeVars ==
    <<lf_pc, lf_addr, lf_sessions, lf_rec_rm, lf_guard, lf_token, lf_wait, lf_lock,
      lf_peers, lf_h, lf_main>>

\* the session spawner, connect_session and the SessionCache of one address (session.rs)
VARIABLES
    ss_cfg,         \* config: whitelist (<<>> for None), avoid_redundant_peering, only_peers_advertising_jumper, failed_yggdrasil_traversal_limit (<<>> for None)
    ss_peers,       \* the value of the peers watch: PeerEntry records with address and remote (<<>> for None) and up
    ss_cleaner,     \* node_info_cache_cleaner was spawned (session.rs 155-157)
    ss_cache,       \* node_info_cache entry of the address: <<>> when absent, else <<SessionCache>>
    ss_pc,          \* the task of the address: "idle" (none) | "start" | "traverse" | "try_session" | "exit"
    ss_tracked,     \* active_sessions has a record of the address
    ss_pass,        \* history: the record the spawner's last pass saw and whether it spawned; <<>> once the task runs
    ss_res          \* history: result of the last traverse_udp of connect_session, "None" before

sessVars ==
    <<ss_cfg, ss_peers, ss_cleaner, ss_cache, ss_pc, ss_tracked, ss_pass, ss_res>>

\* the supervision loop of one bridge and the peers watch (bridge.rs, bridge)
VARIABLES
    bw_delay_shutdown,\* delay_shutdown is Some: the grace period has not been seen to end
    bw_pc,          \* "running" | "not_connected" | "wrong_node" | "closed"
    bw_snap         \* history: <<snapshot>> of the peers watch the loop handled last, <<>> before

bwVars ==
    <<bw_delay_shutdown, bw_pc, bw_snap>>

\* the inactivity window of connect_session (session.rs)
VARIABLES
    gt_cfg,         \* config.inactivity_delay_period and config.inactivity_delay, in seconds
    gt_uptime,      \* the session's uptime: <<>> for None, <<seconds>> for Some
    gt_out          \* "idle" | "aborted" (returned at line 64) | "sleep" (went on to line 85)

gateVars ==
    <<gt_cfg, gt_uptime, gt_out>>

\* start_bridge: the router listen urls, add_peer and remove_peer (bridge.rs)
VARIABLES
    sb_in,          \* protocol (by its id), connection_mode, the schemes of config.yggdrasil_listen, server_password (<<>> for None); Any and the password come with Tcp only
    sb_i,           \* urls of yggdrasil_listen the loop has passed
    sb_pc,          \* "connect" | "bridge" (bridge() runs) | "failed" (returned Err) | "returned"
    sb_guard,       \* remove_peer_guard: <<>> for None, <<uri>> of the remove_peer it holds
    sb_h            \* history: outcome of every dial, the string given to add_peer, the string given to remove_peer

sbVars ==
    <<sb_in, sb_i, sb_pc, sb_guard, sb_h>>

\* admin_api::monitor, the bridges watching its sessions, main's exit (admin_api.rs, bridge.rs, yggdrasil-jumper.rs)
VARIABLES
    am_reconnect,   \* cli_args.reconnect || config.yggdrasil_admin_reconnect
    am_pc,          \* the monitor: "query" (inner loop) | "reconnect" (in admin_api::reconnect) | "returned_err"
    am_sessions,    \* value of the sessions watch: addresses of the sessions
    am_peers,       \* value of the peers watch: addresses of the peers
    am_unseen,      \* per bridge: its watch_sessions has a value it has not seen
    am_bridge,      \* per address: "none" | "running" (in the loop of bridge()) | "closed" (returned, record removal spawned)
    am_record,      \* per address: active_sessions holds a Bridge record
    am_errors,      \* history: kinds of admin-API error met, "io" (the query failed) or "api" (the router answered with an error)
    am_exit         \* <<>> while the process runs, <<code>> once it exited

amVars ==
    <<am_reconnect, am_pc, am_sessions, am_peers, am_unseen, am_bridge, am_record,
      am_errors, am_exit>>

\* relay threads and active_proxies (proxy_udp.rs, proxy_tcp.rs)
VARIABLES
    px_setup,       \* per thread, the setup code: "spawn" (before the spawn) | "insert" (id taken, not inserted) | "done"
    px_thread,      \* per thread: "unspawned" | "running" | "exited"
    active_proxies  \* state.active_proxies: ids of threads

pxVars ==
    <<px_setup, px_thread, active_proxies>>

\* traverse_udp at both daemons of one Internet traversal (network.rs)
VARIABLES
    pr_retry,       \* params.retry_count, the same at both daemons
    pr_p,           \* each daemon's prober variables
    pr_pc,          \* each daemon: "send" (top of the loop) | "wait" (in the select!) | "done"
    pr_net,         \* datagrams sent so far, each any number of times deliverable: [to, class]
    pr_acc,         \* history: classes of the datagrams of the other daemon that each daemon matched
    pr_res          \* what traverse_udp returned, <<>> before

prVars ==
    <<pr_retry, pr_p, pr_pc, pr_net, pr_acc, pr_res>>

\* Timeout::new collected to its end (utils/timeout.rs)
VARIABLES
    tm_cfg,         \* the arguments of Timeout::new: retry_time (ns), cycle_count, is_exponential
    tm_self,        \* the Timeout: t0, cycles_left, next_scale (<<>> for None)
    tm_out,         \* the durations collected so far
    tm_pc           \* "new" | "iter" | "done" | "panic"

timeoutVars ==
    <<tm_cfg, tm_self, tm_out, tm_pc>>

\* the handshake of two daemons (protocol.rs, try_session)
VARIABLES
    hs_cfg,         \* each side: router address, config.yggdrasil_protocols, schemes of config.yggdrasil_listen, force_nonce_peering_password
    hs_hdr,         \* the header each side receives: side b gets a's own, side a gets b's protocols under any version and nonce
    hs_run          \* each side's try_session: pc, common protocols, round, (protocol, mode) of the rounds, candidate addresses sent, result

hsVars ==
    <<hs_cfg, hs_hdr, hs_run>>

vars ==
    <<wlVars, parseVars, varintVars, dpiVars, stunVars, inetVars, recvVars, lifeVars, sessVars, bwVars, gateVars, sbVars, amVars, pxVars, prVars, timeoutVars, hsVars>>

\* what the actions of one specification leave alone
WlFrame ==
    UNCHANGED <<parseVars, varintVars, dpiVars, stunVars, inetVars, recvVars, lifeVars, sessVars, bwVars, gateVars, sbVars, amVars, pxVars, prVars, timeoutVars, hsVars>>

ParseFrame ==
    UNCHANGED <<wlVars, varintVars, dpiVars, stunVars, inetVars, recvVars, lifeVars, sessVars, bwVars, gateVars, sbVars, amVars, pxVars, prVars, timeoutVars, hsVars>>

VarintFrame ==
    UNCHANGED <<wlVars, parseVars, dpiVars, stunVars, inetVars, recvVars, lifeVars, sessVars, bwVars, gateVars, sbVars, amVars, pxVars, prVars, timeoutVars, hsVars>>

DpiFrame ==
    UNCHANGED <<wlVars, parseVars, varintVars, stunVars, inetVars, recvVars, lifeVars, sessVars, bwVars, gateVars, sbVars, amVars, pxVars, prVars, timeoutVars, hsVars>>

StunFrame ==
    UNCHANGED <<wlVars, parseVars, varintVars, dpiVars, inetVars, recvVars, lifeVars, sessVars, bwVars, gateVars, sbVars, amVars, pxVars, prVars, timeoutVars, hsVars>>

InetFrame ==
    UNCHANGED <<wlVars, parseVars, varintVars, dpiVars, stunVars, recvVars, lifeVars, sessVars, bwVars, gateVars, sbVars, amVars, pxVars, prVars, timeoutVars, hsVars>>

RecvFrame ==
    UNCHANGED <<wlVars, parseVars, varintVars, dpiVars, stunVars, inetVars, lifeVars, sessVars, bwVars, gateVars, sbVars, amVars, pxVars, prVars, timeoutVars, hsVars>>

LifeFrame ==
    UNCHANGED <<wlVars, parseVars, varintVars, dpiVars, stunVars, inetVars, recvVars, sessVars, bwVars, gateVars, sbVars, amVars, pxVars, prVars, timeoutVars, hsVars>>

SessFrame ==
    UNCHANGED <<wlVars, parseVars, varintVars, dpiVars, stunVars, inetVars, recvVars, lifeVars, bwVars, gateVars, sbVars, amVars, pxVars, prVars, timeoutVars, hsVars>>

BwFrame ==
    UNCHANGED <<wlVars, parseVars, varintVars, dpiVars, stunVars, inetVars, recvVars, lifeVars, sessVars, gateVars, sbVars, amVars, pxVars, prVars, timeoutVars, hsVars>>

GateFrame ==
    UNCHANGED <<wlVars, parseVars, varintVars, dpiVars, stunVars, inetVars, recvVars, lifeVars, sessVars, bwVars, sbVars, amVars, pxVars, prVars, timeoutVars, hsVars>>

SbFrame ==
    UNCHANGED <<wlVars, parseVars, varintVars, dpiVars, stunVars, inetVars, recvVars, lifeVars, sessVars, bwVars, gateVars, amVars, pxVars, prVars, timeoutVars, hsVars>>

AmFrame ==
    UNCHANGED <<wlVars, parseVars, varintVars, dpiVars, stunVars, inetVars, recvVars, lifeVars, sessVars, bwVars, gateVars, sbVars, pxVars, prVars, timeoutVars, hsVars>>

PxFrame ==
    UNCHANGED <<wlVars, parseVars, varintVars, dpiVars, stunVars, inetVars, recvVars, lifeVars, sessVars, bwVars, gateVars, sbVars, amVars, prVars, timeoutVars, hsVars>>

PrFrame ==
    UNCHANGED <<wlVars, parseVars, varintVars, dpiVars, stunVars, inetVars, recvVars, lifeVars, sessVars, bwVars, gateVars, sbVars, amVars, pxVars, timeoutVars, hsVars>>

TimeoutFrame ==
    UNCHANGED <<wlVars, parseVars, varintVars, dpiVars, stunVars, inetVars, recvVars, lifeVars, sessVars, bwVars, gateVars, sbVars, amVars, pxVars, prVars, hsVars>>

HsFrame ==
    UNCHANGED <<wlVars, parseVars, varintVars, dpiVars, stunVars, inetVars, recvVars, lifeVars, sessVars, bwVars, gateVars, sbVars, amVars, pxVars, prVars, timeoutVars>>

\* ---------------------------------------------------------------------
\* session.rs: whitelist closure of spawn_new_sessions
\* ---------------------------------------------------------------------

ADDRESS_PREFIX == 2
SUBNET_PREFIX == 3
SUBNET_BYTES == 8

\* An Ipv6Addr is the tuple of its 16 octets.  The pool varies the prefix
\* octet, two octets inside the first eight and one octet after them.
Ipv6(p, b, c) ==
    <<p, 0, 0, 0, 0, 0, 0, b, c, 0, 0, 0, 0, 0, 0, 1>>

PrefixOctets == {2, 3, 4}
MaxOctet == 1
AddrPool ==
    {Ipv6(p, b, c) : p \in PrefixOctets, b \in 0..MaxOctet, c \in 0..MaxOctet}

MaxWhitelist == 2

\* a subnet id cut one octet short (a variant the whitelist property rejects)
get_subnet_id_short(address) ==
    SubSeq(address, 1, SUBNET_BYTES - 1)

\* u64::from_ne_bytes(address.octets()[..SUBNET_BYTES]): the u64 is kept as
\* its eight native-order bytes, which from_ne_bytes/to_ne_bytes preserve.
get_subnet_id(address) ==
    SubSeq(address, 1, SUBNET_BYTES)

\* the `addresses` HashSet built from the whitelist
addresses(whitelist) ==
    {address \in whitelist : address[1] # SUBNET_PREFIX}

\* the `subnets` HashSet built from the whitelist
subnets(whitelist) ==
    {[get_subnet_id(address) EXCEPT ![1] = ADDRESS_PREFIX] :
        address \in {e \in whitelist : e[1] = SUBNET_PREFIX}}

\* the closure returned for Some(whitelist)
whitelist_contains(whitelist, address) ==
    \/ address \in addresses(whitelist)
    \/ get_subnet_id(address) \in subnets(whitelist)

\* ---------------------------------------------------------------------
\* yggdrasil_dpi.rs: decode_varint and parse_yggdrasil_packet
\* ---------------------------------------------------------------------

VARINT_MAX_LEN == 9

RECURSIVE Pow2(_)
Pow2(n) ==
    IF n = 0 THEN 1 ELSE 2 * Pow2(n - 1)

\* the loop body of decode_varint for index i; `value |= x << (i * 7)` adds
\* x * 2^(7i) because the bit ranges of successive groups are disjoint
RECURSIVE decode_varint_from(_, _, _)
decode_varint_from(buf, i, value) ==
    IF i >= VARINT_MAX_LEN
    THEN [kind |-> "Invalid", value |-> 0, varint_len |-> 0]
    ELSE IF i >= Len(buf)
    THEN [kind |-> "Truncated", value |-> 0, varint_len |-> 0]
    ELSE LET e == buf[i + 1]
             low == e % 128
             v == IF low = 0 THEN value ELSE value + low * Pow2(7 * i)
         IN  IF e < 128
             THEN [kind |-> "Ok", value |-> v, varint_len |-> i + 1]
             ELSE decode_varint_from(buf, i + 1, v)

decode_varint(buf) ==
    decode_varint_from(buf, 0, 0)

\* b"meta"
META == <<109, 101, 116, 97>>

Pkt(kind, len) ==
    [kind |-> kind, len |-> len]

parse_yggdrasil_packet(buf) ==
    IF StartsWith(buf, META)
    THEN IF Len(buf) < 6
         THEN Pkt("TruncatedHeader", 0)
         ELSE LET len == 6 + (buf[5] * 256 + buf[6])
              IN  IF len <= Len(buf) THEN Pkt("Meta", len) ELSE Pkt("Truncated", len)
    ELSE LET v == decode_varint(buf)
         IN  IF v.kind = "Truncated" THEN Pkt("TruncatedHeader", 0)
             ELSE IF v.kind = "Invalid" THEN Pkt("Invalid", 0)
             ELSE IF v.varint_len + v.value > Len(buf)
                  THEN Pkt("Truncated", v.varint_len + v.value)
             ELSE IF v.varint_len >= Len(buf) THEN Pkt("Invalid", 0)
             ELSE IF buf[v.varint_len + 1] = 9
                  THEN Pkt("Traffic", v.varint_len + v.value)
                  ELSE Pkt("Meta", v.varint_len + v.value)

is_traffic(packet) ==
    packet.kind = "Traffic"

\* ---------------------------------------------------------------------
\* Packets and streams used as inputs
\* ---------------------------------------------------------------------

\* the connection's first packet: "meta", u16 length 1, one body byte
MetaHeader == META \o <<0, 1, 7>>
\* traffic packets (type 9) of total length 2 and 3
TrafficMin == <<1, 9>>
TrafficSmall == <<2, 9, 7>>
\* a traffic packet of total length 5
TrafficBig == <<4, 9, 7, 7, 7>>
\* a control packet (type 1)
Control == <<2, 1, 7>>
\* a control packet with a two-byte length varint (128): total length 130
ControlLong == <<128, 1, 1>> \o Zeros(127)
\* a control packet of type 101 and length 109: its bytes read "meta", 0, 0,
\* then what looks like a minimal traffic packet and a control packet of 102 bytes
ControlLikeMeta == <<109, 101, 116, 97, 0, 0, 1, 9, 101, 1>> \o Zeros(100)

SeqsUpTo(S, n) ==
    UNION {[1..k -> S] : k \in 0..n}

RECURSIVE Boundaries(_, _)
\* end offsets of the packets of a stream, the first starting at `from`
Boundaries(pkts, from) ==
    IF pkts = <<>> THEN <<>>
    ELSE <<from + Len(Head(pkts))>> \o Boundaries(Tail(pkts), from + Len(Head(pkts)))

\* ---------------------------------------------------------------------
\* SpecParse: the parser walked over a prefix of a valid stream
\* ---------------------------------------------------------------------

MaxParsePkts == 2

ParsePool == {TrafficMin, TrafficSmall, Control, ControlLong, ControlLikeMeta}

ParseIdleMark == Pkt("Idle", 0)

\* ---------------------------------------------------------------------
\* yggdrasil_dpi.rs: decode_varint over the whole range of u64
\* ---------------------------------------------------------------------

\* the width of `value: u64`
U64_BITS == 64

\* the values of the check have at most this many one bits
MaxOneBits == 2

\* decode_varint with the u64 kept as the set of the positions of its one
\* bits: `value |= (e & 0x7f) << (i * 7)` adds the one bits of the low seven
\* bits of e, moved up by 7i; bits moved past the width are lost
RECURSIVE decode_varint_u64(_, _, _)
decode_varint_u64(buf, i, value) ==
    IF i >= VARINT_MAX_LEN
    THEN [kind |-> "Invalid", value |-> {}, varint_len |-> 0]
    ELSE IF i >= Len(buf)
    THEN [kind |-> "Truncated", value |-> {}, varint_len |-> 0]
    ELSE LET e == buf[i + 1]
             shifted == {b + 7 * i : b \in {c \in 0..6 : (e \div Pow2(c)) % 2 = 1}}
             v == value \cup {b \in shifted : b < U64_BITS}
         IN  IF e < 128
             THEN [kind |-> "Ok", value |-> v, varint_len |-> i + 1]
             ELSE decode_varint_u64(buf, i + 1, v)

\* decode_varint is called on the encoding of the value
VarintDecode ==
    /\ vi_result.kind = "Idle"
    /\ vi_result' = decode_varint_u64(vi_buf, 0, {})
    /\ UNCHANGED <<vi_value, vi_buf>>
    /\ VarintFrame

\* ---------------------------------------------------------------------
\* Actions of SpecWhitelist and SpecParse
\* ---------------------------------------------------------------------

\* spawn_new_sessions reaches a session of the snapshot and applies the
\* whitelist test to its address
WhitelistStep ==
    /\ wl_result = "idle"
    /\ wl_result' = IF wl_whitelist = <<>> THEN "accepted"
                    ELSE IF whitelist_contains(wl_whitelist[1], wl_addr) THEN "accepted"
                    ELSE "skipped"
    /\ UNCHANGED <<wl_whitelist, wl_addr>>
    /\ WlFrame

\* the loop moves on to the next session of the snapshot
WhitelistNextSession ==
    /\ wl_result # "idle"
    /\ wl_addr' \in AddrPool
    /\ wl_result' = "idle"
    /\ UNCHANGED wl_whitelist
    /\ WlFrame

WlNext ==
    \/ WhitelistStep
    \/ WhitelistNextSession

\* one call of parse_yggdrasil_packet on the bytes that remain, advancing by
\* the length of a complete packet
ParseStep ==
    /\ p_last.kind \in {"Idle", "Meta", "Traffic"}
    /\ p_pos < Len(p_buf)
    /\ LET packet == parse_yggdrasil_packet(Drop(p_buf, p_pos))
       IN  /\ p_last' = packet
           /\ IF packet.kind \in {"Meta", "Traffic"}
              THEN /\ p_pos' = p_pos + packet.len
                   /\ p_cuts' = Append(p_cuts, p_pos + packet.len)
              ELSE UNCHANGED <<p_pos, p_cuts>>
    /\ UNCHANGED <<p_pkts, p_buf>>
    /\ ParseFrame

ParseNext ==
    ParseStep

\* ---------------------------------------------------------------------
\* yggdrasil_dpi.rs: SendLossy
\* ---------------------------------------------------------------------

\* config.yggdrasil_dpi_udp_mtu, scaled to the packets of the model
DpiMtu == 4

SendResult(skip, pf, left, udp, kcp, seen, late) ==
    [skip |-> skip, permanent_fallback |-> pf, left |-> left,
     udp |-> udp, kcp |-> kcp, seen |-> seen, late |-> late]

\* SendLossy::recover: everything goes to the reliable channel, for good
SendLossy_recover(skip, send, udp, kcp, seen, late) ==
    SendResult(skip, TRUE, <<>>, udp, kcp \o send, seen, late)

\* the two nested loops of SendLossy::send; udp and kcp collect what
\* peer.send and kcp.send were given, seen and late are history
RECURSIVE SendLossy_loop(_, _, _, _, _, _, _)
SendLossy_loop(fallback_to_reliable, skip, to_write, udp, kcp, seen, late) ==
    IF to_write = <<>>
    THEN SendResult(skip, FALSE, <<>>, udp, kcp, seen, late)
    ELSE IF skip # 0
    THEN LET to_skip == Min(skip, Len(to_write))
         IN  SendLossy_loop(fallback_to_reliable, skip - to_skip, Drop(to_write, to_skip),
                            udp, kcp \o Take(to_write, to_skip), seen, late)
    ELSE LET packet == parse_yggdrasil_packet(to_write)
             len == packet.len
             late2 == late \/ (seen /\ StartsWith(to_write, META))
         IN  CASE packet.kind = "Invalid" ->
                    SendLossy_recover(skip, to_write, udp, kcp, seen, late2)
               [] packet.kind = "TruncatedHeader" ->
                    SendResult(skip, FALSE, to_write, udp, kcp, seen, late2)
               [] packet.kind = "Traffic" /\ len <= DpiMtu ->
                    SendLossy_loop(fallback_to_reliable, skip, Drop(to_write, len),
                                   Append(udp, Take(to_write, len)), kcp, TRUE, late2)
               [] packet.kind = "Traffic" /\ len > DpiMtu /\ ~fallback_to_reliable ->
                    SendLossy_loop(fallback_to_reliable, skip, Drop(to_write, len),
                                   udp, kcp, TRUE, late2)
               [] packet.kind = "Truncated" ->
                    SendLossy_loop(fallback_to_reliable, skip + len, to_write,
                                   udp, kcp, TRUE, late2)
               [] OTHER ->
                    SendLossy_loop(fallback_to_reliable, skip, Drop(to_write, len),
                                   udp, kcp \o Take(to_write, len), TRUE, late2)

\* a send that parses again in every call (a variant the permanence of the
\* fallback rejects)
SendLossy_send_reparsing(fallback_to_reliable, skip, permanent_fallback, send, seen) ==
    SendLossy_loop(fallback_to_reliable, skip, send, <<>>, <<>>, seen, FALSE)

SendLossy_send(fallback_to_reliable, skip, permanent_fallback, send, seen) ==
    IF permanent_fallback
    THEN SendLossy_recover(skip, send, <<>>, <<>>, seen, FALSE)
    ELSE SendLossy_loop(fallback_to_reliable, skip, send, <<>>, <<>>, seen, FALSE)

\* ---------------------------------------------------------------------
\* yggdrasil_dpi.rs: ReceiveLossy
\* ---------------------------------------------------------------------

\* peer_conv.to_le_bytes() for the conversation id the two peers agreed on
PeerConvLe == <<201, 202, 203, 204>>

\* the test of recv_lossy: is the datagram taken as a direct packet
recv_lossy(permanent_fallback, recv) ==
    /\ ~permanent_fallback
    /\ ~StartsWith(recv, PeerConvLe)
    /\ is_traffic(parse_yggdrasil_packet(recv))

ReadResult(skip, backlog, pf, left, out, seen, late) ==
    [skip |-> skip, backlog |-> backlog, permanent_fallback |-> pf, left |-> left,
     out |-> out, seen |-> seen, late |-> late]

\* ReceiveLossy::recover
ReceiveLossy_recover(skip, backlog, permanent_fallback, recv, out, seen, late) ==
    ReadResult(skip, IF permanent_fallback THEN backlog ELSE <<>>, TRUE, <<>>,
               out \o recv, seen, late)

\* the two nested loops of read_reliable; out collects what was written
RECURSIVE read_reliable_loop(_, _, _, _, _, _, _)
read_reliable_loop(skip, backlog, to_write, to_flush, out, seen, late) ==
    IF to_flush = Len(to_write)
    THEN ReadResult(skip, backlog, FALSE, <<>>, out \o to_write, seen, late)
    ELSE IF skip # 0
    THEN LET to_skip == Min(skip, Len(to_write) - to_flush)
         IN  read_reliable_loop(skip - to_skip, backlog, to_write, to_flush + to_skip,
                                out, seen, late)
    ELSE LET rest == Drop(to_write, to_flush)
             packet == parse_yggdrasil_packet(rest)
             late2 == late \/ (seen /\ StartsWith(rest, META))
             flushed == to_flush + packet.len
         IN  CASE packet.kind = "Invalid" ->
                    ReceiveLossy_recover(skip, backlog, FALSE, to_write, out, seen, late2)
               [] packet.kind = "TruncatedHeader" ->
                    ReadResult(skip, backlog, FALSE, rest,
                               out \o Take(to_write, to_flush), seen, late2)
               [] packet.kind = "Truncated" ->
                    read_reliable_loop(skip + packet.len, backlog, to_write, to_flush,
                                       out, TRUE, late2)
               [] OTHER ->
                    IF backlog # <<>>
                    THEN read_reliable_loop(skip, <<>>, Drop(to_write, flushed), 0,
                                            out \o Take(to_write, flushed) \o backlog,
                                            TRUE, late2)
                    ELSE read_reliable_loop(skip, backlog, to_write, flushed,
                                            out, TRUE, late2)

read_reliable(skip, backlog, permanent_fallback, recv, seen) ==
    IF permanent_fallback
    THEN ReceiveLossy_recover(skip, backlog, TRUE, recv, <<>>, seen, FALSE)
    ELSE read_reliable_loop(skip, backlog, recv, 0, <<>>, seen, FALSE)

\* ---------------------------------------------------------------------
\* proxy_tcp.rs: the two threads around SendLossy / ReceiveLossy, the KCP
\* stream between them and the UDP path of the direct datagrams
\* ---------------------------------------------------------------------

\* KCP's maximum segment size, scaled; it stays above the 6-byte meta header
KcpMss == 7
\* most bytes one read of the router-side socket returns, unless it returns
\* everything that is left
MaxChunk == 4
\* most reads the sender thread makes in one run
MaxReads == 3
\* most KCP segments one pass of the receiver's inner loop finds queued
MaxBatch == 2
MaxDpiPkts == 2

RECURSIVE Chunks(_)
\* a byte string cut into segments of at most KcpMss bytes
Chunks(data) ==
    IF data = <<>> THEN <<>>
    ELSE <<Take(data, KcpMss)>> \o Chunks(Drop(data, KcpMss))

\* k.send in stream mode: fill the last queued segment, then add segments
KcpSend(segs, open, data) ==
    IF data = <<>> THEN segs
    ELSE IF open /\ segs # <<>> /\ Len(Last(segs)) < KcpMss
    THEN LET room == KcpMss - Len(Last(segs))
         IN  SubSeq(segs, 1, Len(segs) - 1)
                 \o <<Last(segs) \o Take(data, room)>>
                 \o Chunks(Drop(data, room))
    ELSE segs \o Chunks(data)

\* a frame of length zero: it has no type byte
ZeroLen == <<0>>

DpiPool == {TrafficSmall, TrafficBig, Control, ZeroLen}

DpiStreams ==
    {h \o s : h \in {<<>>, <<MetaHeader>>}, s \in SeqsUpTo(DpiPool, MaxDpiPkts)}
        \cup {<<TrafficMin, ControlLikeMeta>>}

\* one pass of the receiver's inner loop over the segments k.recv returns:
\* `left` bytes of one read_reliable call prefix the next segment, and
\* whatever is left when the queue is empty is not kept
RECURSIVE ReceiverDrain(_, _, _, _, _, _, _, _)
ReceiverDrain(segs, left, skip, backlog, pf, out, seen, late) ==
    IF segs = <<>>
    THEN [skip |-> skip, backlog |-> backlog, permanent_fallback |-> pf,
          out |-> out, seen |-> seen, late |-> late]
    ELSE LET r == read_reliable(skip, backlog, pf, left \o Head(segs), seen)
         IN  ReceiverDrain(Tail(segs), r.left, r.skip, r.backlog, r.permanent_fallback,
                           out \o r.out, r.seen, late \/ r.late)

\* the sender thread: one read of the router-side socket, SendLossy::send on
\* the bytes kept from last time plus the bytes read, then update and flush
SenderRead(n) ==
    /\ d_in # <<>>
    /\ d_reads < MaxReads
    /\ n \in 1..Len(d_in)
    /\ n <= MaxChunk \/ n = Len(d_in)
    /\ LET buf == s_left \o Take(d_in, n)
           r == SendLossy_send(d_fallback, s_skip, s_pf, buf, s_seen)
           segs == KcpSend(k_segs, k_open, r.kcp)
       IN  /\ d_in' = Drop(d_in, n)
           /\ d_reads' = d_reads + 1
           /\ s_skip' = r.skip
           /\ s_pf' = r.permanent_fallback
           /\ s_left' = r.left
           /\ s_seen' = r.seen
           /\ u_q' = u_q \o r.udp
           /\ k_segs' = segs
           /\ k_open' \in (IF segs = <<>> THEN {FALSE} ELSE BOOLEAN)
           /\ h_late' = (h_late \/ r.late)
           /\ h_fb_calls' = h_fb_calls + (IF s_pf THEN 1 ELSE 0)
    /\ UNCHANGED <<d_pkts, d_fallback, r_skip, r_backlog, r_pf, r_seen, d_out>>
    /\ DpiFrame

\* a later k.flush of the sender thread transmits the queued segment
KcpFlush ==
    /\ k_open
    /\ k_open' = FALSE
    /\ UNCHANGED <<d_pkts, d_in, d_reads, d_fallback, s_skip, s_pf, s_left, s_seen, k_segs, u_q,
                   r_skip, r_backlog, r_pf, r_seen, d_out, h_late, h_fb_calls>>
    /\ DpiFrame

\* the receiver thread reads a direct datagram: recv_lossy takes it, or it is
\* handed to k.input, which finds no KCP segment in it
ReceiverDatagram(i) ==
    /\ i \in 1..Len(u_q)
    /\ LET recv == u_q[i]
       IN  /\ u_q' = RemoveAt(u_q, i)
           /\ IF recv_lossy(r_pf, recv)
              THEN IF r_skip = 0
                   THEN d_out' = d_out \o recv /\ UNCHANGED r_backlog
                   ELSE r_backlog' = r_backlog \o recv /\ UNCHANGED d_out
              ELSE UNCHANGED <<d_out, r_backlog>>
    /\ UNCHANGED <<d_pkts, d_in, d_reads, d_fallback, s_skip, s_pf, s_left, s_seen, k_segs, k_open,
                   r_skip, r_pf, r_seen, h_late, h_fb_calls>>
    /\ DpiFrame

\* the receiver thread reads KCP datagrams that complete n segments and
\* drains them through read_reliable
ReceiverKcp(n) ==
    /\ n \in 1..MaxBatch
    /\ n <= Len(k_segs) - (IF k_open THEN 1 ELSE 0)
    /\ LET r == ReceiverDrain(SubSeq(k_segs, 1, n), <<>>, r_skip, r_backlog, r_pf,
                              <<>>, r_seen, FALSE)
       IN  /\ k_segs' = Drop(k_segs, n)
           /\ r_skip' = r.skip
           /\ r_backlog' = r.backlog
           /\ r_pf' = r.permanent_fallback
           /\ r_seen' = r.seen
           /\ d_out' = d_out \o r.out
           /\ h_late' = (h_late \/ r.late)
    /\ UNCHANGED <<d_pkts, d_in, d_reads, d_fallback, s_skip, s_pf, s_left, s_seen, k_open, u_q, h_fb_calls>>
    /\ DpiFrame

DpiNext ==
    \/ \E n \in 1..(Len(d_in) + 1) : SenderRead(n)
    \/ KcpFlush
    \/ \E i \in 1..(Len(u_q) + 1) : ReceiverDatagram(i)
    \/ \E n \in 1..MaxBatch : ReceiverKcp(n)

\* ---------------------------------------------------------------------
\* stun.rs: the external-address monitor
\* ---------------------------------------------------------------------

\* longest config.yggdrasil_protocols list
MaxProtocols == 2

PeeringProtocols == {"Tcp", "Tls", "Quic"}

\* impl From<PeeringProtocol> for NetworkProtocol (bridge.rs)
into_NetworkProtocol(p) ==
    IF p = "Quic" THEN "Udp" ELSE "Tcp"

\* the listeners' local addresses: setup_inet_listeners binds one socket per
\* allowed family, IPv4 first
LocalChoices == {<<"0.0.0.0:1">>, <<"[::]:2">>, <<"0.0.0.0:1", "[::]:2">>}

\* config.stun_servers
StunServers == <<"stun-a", "stun-b">>

\* addresses a STUN server may report
ExternalPool == {"198.51.100.7:7"}

RECURSIVE unique(_)
\* Itertools::unique: the first occurrence of every element, in order
unique(s) ==
    IF s = <<>> THEN <<>>
    ELSE LET rest == unique(SubSeq(s, 1, Len(s) - 1))
         IN  IF \E i \in 1..Len(rest) : rest[i] = Last(s) THEN rest ELSE Append(rest, Last(s))

\* the protocol list without the unique() step (a variant the monitor's
\* property rejects)
protocols_mapped(yggdrasil_protocols) ==
    [i \in 1..Len(yggdrasil_protocols) |-> into_NetworkProtocol(yggdrasil_protocols[i])]

\* `protocols`: yggdrasil_protocols mapped to transports, duplicates removed
protocols(yggdrasil_protocols) ==
    unique([i \in 1..Len(yggdrasil_protocols) |-> into_NetworkProtocol(yggdrasil_protocols[i])])

\* Server::set
Server_set(server, protocol) ==
    IF protocol = "Tcp" THEN server.tcp_status ELSE server.udp_status

\* Server::reset
Server_reset(server, protocol, value) ==
    IF protocol = "Tcp" THEN [server EXCEPT !.tcp_status = value]
    ELSE [server EXCEPT !.udp_status = value]

ExternalAddress(local, external, protocol) ==
    [local |-> local, external |-> external, protocol |-> protocol]

\* a reset before every pair (a variant the blacklisting rule rejects)
reset_always(servers, protocol) ==
    [i \in 1..Len(servers) |-> Server_reset(servers[i], protocol, TRUE)]

\* lines 71-75: all servers of a protocol unset => set them all again
reset_if_all_unset(servers, protocol) ==
    IF \A i \in 1..Len(servers) : ~Server_set(servers[i], protocol)
    THEN [i \in 1..Len(servers) |-> Server_reset(servers[i], protocol, TRUE)]
    ELSE servers

\* servers.shuffle(): any order
shuffled(servers) ==
    {[i \in 1..Len(servers) |-> servers[p[i]]] : p \in Permutations(1..Len(servers))}

\* lines 81-89: try the set servers in order; answer[k] is what lookup returns
\* for the server at position k. `asked` lists the lookups made, in order
RECURSIVE try_servers(_, _, _, _, _, _)
try_servers(servers, k, protocol, local, answer, external) ==
    IF k > Len(servers) THEN [servers |-> servers, external |-> external, asked |-> <<>>]
    ELSE IF ~Server_set(servers[k], protocol)
    THEN try_servers(servers, k + 1, protocol, local, answer, external)
    ELSE IF answer[k] = "Err"
    THEN LET r == try_servers([servers EXCEPT ![k] = Server_reset(servers[k], protocol, FALSE)],
                              k + 1, protocol, local, answer, external)
         IN  [r EXCEPT !.asked = <<[server |-> servers[k].server, answer |-> "Err"]>> \o @]
    ELSE [servers |-> servers,
          external |-> Append(external, ExternalAddress(local, answer[k], protocol)),
          asked |-> <<[server |-> servers[k].server, answer |-> answer[k]]>>]

\* the (local, protocol) pairs of one pass, in the order of the two loops
PassPairs ==
    LET ps == protocols(st_cfg.yggdrasil_protocols)
    IN  [k \in 1..(Len(st_cfg.local) * Len(ps)) |->
            <<st_cfg.local[((k - 1) \div Len(ps)) + 1], ps[((k - 1) % Len(ps)) + 1]>>]

\* one turn of the inner loop body: lines 69-90 for the next (local, protocol)
StunResolve ==
    /\ st_pc = "pass"
    /\ st_i < Len(PassPairs)
    /\ LET local == PassPairs[st_i + 1][1]
           protocol == PassPairs[st_i + 1][2]
           reset == reset_if_all_unset(st_servers, protocol)
       IN  \E order \in (IF st_cfg.stun_randomize THEN shuffled(reset) ELSE {reset}) :
           \E answer \in [1..Len(order) -> {"Err"} \cup ExternalPool] :
               LET r == try_servers(order, 1, protocol, local, answer, st_external)
               IN  /\ st_servers' = r.servers
                   /\ st_external' = r.external
                   /\ st_asked' = r.asked
    /\ st_i' = st_i + 1
    /\ st_seen' = <<>>
    /\ UNCHANGED <<st_cfg, st_pc, st_watch>>
    /\ StunFrame

\* lines 93-106: publish when the result differs, then sleep or suspend
StunPublish ==
    /\ st_pc = "pass"
    /\ st_i = Len(PassPairs)
    /\ st_watch' = IF st_watch # st_external THEN st_external ELSE st_watch
    /\ \E recent \in BOOLEAN :
        st_pc' = IF st_watch' = <<>> \/ recent THEN "sleep" ELSE "suspended"
    /\ st_external' = <<>>
    /\ st_i' = 0
    /\ st_seen' = <<>>
    /\ st_asked' = <<>>
    /\ UNCHANGED <<st_cfg, st_servers>>
    /\ StunFrame

\* line 105: the delay before the next pass is over
StunSleepDone ==
    /\ st_pc = "sleep"
    /\ st_pc' = "pass"
    /\ UNCHANGED <<st_cfg, st_servers, st_external, st_i, st_watch, st_asked, st_seen>>
    /\ StunFrame

\* lines 108-126: a session refreshed external_required and the delay passed;
\* the monitor leaves the suspension unless a bridge is running
StunWake ==
    /\ st_pc = "suspended"
    /\ \E bridge_running \in BOOLEAN :
        /\ st_pc' = IF bridge_running THEN "suspended" ELSE "pass"
        /\ st_seen' = <<bridge_running>>
    /\ UNCHANGED <<st_cfg, st_servers, st_external, st_i, st_watch, st_asked>>
    /\ StunFrame

StunNext ==
    \/ StunResolve
    \/ StunPublish
    \/ StunSleepDone
    \/ StunWake

\* ---------------------------------------------------------------------
\* network.rs: traverse_udp and the active_inet_traversal registry
\* ---------------------------------------------------------------------

\* largest params.retry_count
MaxRetry == 2

\* the traverse_udp calls in flight
Callers == {"a", "b"}

\* `inet`: None (firewall warmup) or Some(session_id)
InetChoices == {<<>>, <<7>>}

\* errors a send or recv on the socket may return
IoErrors == {"ConnectionRefused", "NetworkUnreachable"}

\* classes of the messages the select! may deliver
MessageClasses == {"Request", "SuccessResponse", "ErrorResponse", "Indication"}

\* a prober that starts with twice the retries (a variant the bound on the
\* iterations rejects)
ProberStart_twice(retry_count) ==
    [counter |-> 2 * retry_count, send_ack |-> FALSE, got_remote_ack |-> FALSE,
     last_error |-> "None", break |-> FALSE]

\* lines 231-237: the prober's variables before the first iteration
ProberStart(retry_count) ==
    [counter |-> retry_count, send_ack |-> FALSE, got_remote_ack |-> FALSE,
     last_error |-> "None", break |-> FALSE]

\* the match with an Indication taken for the remote's ACK (a variant the
\* termination rule rejects)
prober_match_indication_acks(p, message, retry_count) ==
    IF message = "Request" /\ ~p.send_ack
    THEN [p EXCEPT !.counter = p.counter + (retry_count \div 2), !.send_ack = TRUE]
    ELSE IF message = "SuccessResponse" /\ ~p.got_remote_ack
    THEN [p EXCEPT !.send_ack = TRUE, !.got_remote_ack = TRUE, !.counter = 2]
    ELSE IF message = "Indication" THEN [p EXCEPT !.got_remote_ack = TRUE, !.break = TRUE]
    ELSE p

\* lines 335-350: what a delivered message does to the prober
prober_match(p, message, retry_count) ==
    IF message = "Request" /\ ~p.send_ack
    THEN [p EXCEPT !.counter = p.counter + (retry_count \div 2), !.send_ack = TRUE]
    ELSE IF message = "SuccessResponse" /\ ~p.got_remote_ack
    THEN [p EXCEPT !.send_ack = TRUE, !.got_remote_ack = TRUE, !.counter = 2]
    ELSE IF message = "Indication" THEN [p EXCEPT !.break = TRUE]
    ELSE p

\* a result that looks at the last error first (a variant the rule of the
\* final retransmissions rejects)
prober_result_error_first(p) ==
    IF p.last_error # "None" THEN <<"Ok", p.last_error>>
    ELSE IF p.got_remote_ack THEN <<"Ok", "Socket">>
    ELSE <<"Ok", "TimedOut">>

\* lines 355-362: the value traverse_udp returns after the loop
prober_result(p) ==
    IF p.got_remote_ack THEN <<"Ok", "Socket">>
    ELSE IF p.last_error # "None" THEN <<"Ok", p.last_error>>
    ELSE <<"Ok", "TimedOut">>

\* a drop guard whose removal is never spawned (a variant the registry's
\* property rejects)
GuardDropped_forgotten(t) ==
    tr_spawned

\* dropping _drop_guard: defer_async spawns the removal of session_id
GuardDropped(t) ==
    IF tr_guard[t] THEN tr_spawned \cup {<<t, tr_inet[t][1]>>} ELSE tr_spawned

\* HashMap::remove
MapRemove(map, key) ==
    [k \in DOMAIN map \ {key} |-> map[k]]

\* the call is between its first poll and its return or drop
TraverseLive(t) ==
    tr_pc[t] \in {"lock", "socket", "loop", "wait"}

\* lines 185-212: traverse_udp is called; with inet set it arms the drop guard
\* and waits for the registry's write lock
TraverseCall(t) ==
    /\ tr_pc[t] = "idle"
    /\ \E inet \in InetChoices, retry_count \in 1..MaxRetry :
        /\ tr_inet' = [tr_inet EXCEPT ![t] = inet]
        /\ tr_retry' = [tr_retry EXCEPT ![t] = retry_count]
        /\ tr_guard' = [tr_guard EXCEPT ![t] = inet # <<>>]
        /\ tr_pc' = [tr_pc EXCEPT ![t] = IF inet # <<>> THEN "lock" ELSE "socket"]
    /\ UNCHANGED <<tr_prober, tr_result, tr_map, tr_spawned, tr_h>>
    /\ InetFrame

\* lines 213-222: insert into the registry, or give up on an occupied entry
TraverseInsert(t) ==
    /\ tr_pc[t] = "lock"
    /\ LET session_id == tr_inet[t][1]
       IN  IF session_id \in DOMAIN tr_map
           THEN /\ tr_guard' = [tr_guard EXCEPT ![t] = FALSE]
                /\ tr_result' = [tr_result EXCEPT ![t] = <<"Err", "AlreadyExists">>]
                /\ tr_pc' = [tr_pc EXCEPT ![t] = "done"]
                /\ UNCHANGED <<tr_map, tr_h>>
           ELSE /\ tr_map' = [k \in DOMAIN tr_map \cup {session_id} |->
                                 IF k = session_id THEN t ELSE tr_map[k]]
                /\ tr_h' = [tr_h EXCEPT ![t].inserted = TRUE]
                /\ tr_pc' = [tr_pc EXCEPT ![t] = "socket"]
                /\ UNCHANGED <<tr_guard, tr_result>>
    /\ UNCHANGED <<tr_inet, tr_retry, tr_prober, tr_spawned>>
    /\ InetFrame

\* lines 225-237: create and connect the socket; an error returns it
TraverseSocket(t) ==
    /\ tr_pc[t] = "socket"
    /\ \E err \in {"None"} \cup IoErrors :
        IF err # "None"
        THEN /\ tr_result' = [tr_result EXCEPT ![t] = <<"Err", err>>]
             /\ tr_h' = [tr_h EXCEPT ![t].err = err]
             /\ tr_spawned' = GuardDropped(t)
             /\ tr_guard' = [tr_guard EXCEPT ![t] = FALSE]
             /\ tr_pc' = [tr_pc EXCEPT ![t] = "done"]
             /\ UNCHANGED tr_prober
        ELSE /\ tr_prober' = [tr_prober EXCEPT ![t] = ProberStart(tr_retry[t])]
             /\ tr_pc' = [tr_pc EXCEPT ![t] = "loop"]
             /\ UNCHANGED <<tr_result, tr_h, tr_spawned, tr_guard>>
    /\ UNCHANGED <<tr_inet, tr_retry, tr_map>>
    /\ InetFrame

\* lines 238-273: one iteration starts: count it and send the probe or the ACK
ProbeSend(t) ==
    /\ tr_pc[t] = "loop"
    /\ tr_prober[t].counter > 0
    /\ ~tr_prober[t].break
    /\ \E err \in {"None"} \cup IoErrors :
        /\ tr_prober' = [tr_prober EXCEPT ![t].counter = @ - 1,
                            ![t].last_error = IF err # "None" THEN err ELSE @]
        /\ tr_h' = [tr_h EXCEPT ![t].err = IF err # "None" THEN err ELSE @,
                                ![t].sends = @ + 1,
                                ![t].after = @ + (IF tr_prober[t].got_remote_ack THEN 1 ELSE 0)]
    /\ tr_pc' = [tr_pc EXCEPT ![t] = "wait"]
    /\ UNCHANGED <<tr_inet, tr_retry, tr_guard, tr_result, tr_map, tr_spawned>>
    /\ InetFrame

\* lines 275-351: the select!: recv errors are recorded while waiting, then the
\* cycle expires or a message that passed the checks is delivered
ProbeWait(t) ==
    /\ tr_pc[t] = "wait"
    /\ \E err \in {"None"} \cup IoErrors, message \in {"Elapsed"} \cup MessageClasses :
        LET p == [tr_prober[t] EXCEPT !.last_error = IF err # "None" THEN err ELSE @]
        IN  /\ ~(message = "Request" /\ p.send_ack)
            /\ tr_prober' = [tr_prober EXCEPT ![t] =
                    IF message = "Elapsed" THEN p ELSE prober_match(p, message, tr_retry[t])]
            /\ tr_h' = [tr_h EXCEPT ![t].err = IF err # "None" THEN err ELSE @,
                                    ![t].ack = @ \/ message = "SuccessResponse"]
    /\ tr_pc' = [tr_pc EXCEPT ![t] = "loop"]
    /\ UNCHANGED <<tr_inet, tr_retry, tr_guard, tr_result, tr_map, tr_spawned>>
    /\ InetFrame

\* line 313: the registry entry of this call is gone, so its channel is closed
\* and conn.recv().await.unwrap() panics; the call is dropped as in TraverseDrop
ProbePanic(t) ==
    /\ tr_pc[t] = "wait"
    /\ tr_inet[t] # <<>>
    /\ ~(tr_inet[t][1] \in DOMAIN tr_map /\ tr_map[tr_inet[t][1]] = t)
    /\ tr_spawned' = GuardDropped(t)
    /\ tr_guard' = [tr_guard EXCEPT ![t] = FALSE]
    /\ tr_pc' = [tr_pc EXCEPT ![t] = "dropped"]
    /\ tr_prober' = [tr_prober EXCEPT ![t] = ProberStart(1)]
    /\ tr_h' = [tr_h EXCEPT ![t].sends = 0, ![t].after = 0, ![t].ack = FALSE, ![t].err = "None"]
    /\ UNCHANGED <<tr_inet, tr_retry, tr_result, tr_map>>
    /\ InetFrame

\* lines 353-362: the loop is over and traverse_udp returns
TraverseReturn(t) ==
    /\ tr_pc[t] = "loop"
    /\ tr_prober[t].counter = 0 \/ tr_prober[t].break
    /\ tr_result' = [tr_result EXCEPT ![t] = prober_result(tr_prober[t])]
    /\ tr_spawned' = GuardDropped(t)
    /\ tr_guard' = [tr_guard EXCEPT ![t] = FALSE]
    /\ tr_pc' = [tr_pc EXCEPT ![t] = "done"]
    /\ UNCHANGED <<tr_inet, tr_retry, tr_prober, tr_map, tr_h>>
    /\ InetFrame

\* the caller drops the traverse_udp future at one of its await points; its
\* locals are gone, and so is what the history tells of its loop
TraverseDrop(t) ==
    /\ TraverseLive(t)
    /\ tr_spawned' = GuardDropped(t)
    /\ tr_guard' = [tr_guard EXCEPT ![t] = FALSE]
    /\ tr_pc' = [tr_pc EXCEPT ![t] = "dropped"]
    /\ tr_prober' = [tr_prober EXCEPT ![t] = ProberStart(1)]
    /\ tr_h' = [tr_h EXCEPT ![t].sends = 0, ![t].after = 0, ![t].ack = FALSE, ![t].err = "None"]
    /\ UNCHANGED <<tr_inet, tr_retry, tr_result, tr_map>>
    /\ InetFrame

\* lines 204-211: a removal spawned by a drop guard runs
DeferredRemove(t) ==
    /\ \E session_id \in {r[2] : r \in {x \in tr_spawned : x[1] = t}} :
        /\ tr_map' = MapRemove(tr_map, session_id)
        /\ tr_spawned' = tr_spawned \ {<<t, session_id>>}
    /\ tr_h' = [tr_h EXCEPT ![t].removed = TRUE]
    /\ UNCHANGED <<tr_pc, tr_inet, tr_retry, tr_guard, tr_prober, tr_result>>
    /\ InetFrame

InetNext ==
    \E t \in Callers :
        \/ TraverseCall(t)
        \/ TraverseInsert(t)
        \/ TraverseSocket(t)
        \/ ProbeSend(t)
        \/ ProbeWait(t)
        \/ ProbePanic(t)
        \/ TraverseReturn(t)
        \/ TraverseDrop(t)
        \/ DeferredRemove(t)

\* ---------------------------------------------------------------------
\* network.rs: traverse_udp at the two daemons of one Internet traversal,
\* over a network that may lose, repeat and reorder their datagrams
\* ---------------------------------------------------------------------

\* traverse_udp answering before it was asked: every datagram it sends is
\* the ACK (a variant the two-way rule rejects)
TraversePair_ack_unasked(s) ==
    /\ \/ /\ pr_pc[s] = "send"
          /\ IF pr_p[s].counter > 0
             THEN /\ pr_p' = [pr_p EXCEPT ![s].counter = @ - 1]
                  /\ pr_net' = pr_net \cup {[to |-> CHOOSE o \in Callers : o # s,
                                             class |-> "SuccessResponse"]}
                  /\ pr_pc' = [pr_pc EXCEPT ![s] = "wait"]
                  /\ UNCHANGED pr_res
             ELSE /\ pr_res' = [pr_res EXCEPT ![s] = prober_result(pr_p[s])]
                  /\ pr_pc' = [pr_pc EXCEPT ![s] = "done"]
                  /\ UNCHANGED <<pr_p, pr_net>>
          /\ UNCHANGED pr_acc
       \/ /\ pr_pc[s] = "wait"
          /\ \/ UNCHANGED <<pr_p, pr_acc>>
             \/ \E m \in pr_net :
                  /\ m.to = s
                  /\ ~(m.class = "Request" /\ pr_p[s].send_ack)
                  /\ pr_p' = [pr_p EXCEPT ![s] = prober_match(@, m.class, pr_retry)]
                  /\ pr_acc' = [pr_acc EXCEPT ![s] = @ \cup {m.class}]
          /\ pr_pc' = [pr_pc EXCEPT ![s] = "send"]
          /\ UNCHANGED <<pr_net, pr_res>>
    /\ UNCHANGED pr_retry
    /\ PrFrame

\* lines 238-362, at daemon s. Top of the loop: with the counter spent the
\* result is returned; else one datagram is sent to the other daemon, the
\* ACK (SuccessResponse) under send_ack and the probe (Request) otherwise,
\* signed with the shared secret. Then the select!: the delay ends, or a
\* datagram of the other daemon arrives, passes the integrity check and,
\* unless it is a Request under send_ack, is matched
TraversePair(s) ==
    /\ \/ /\ pr_pc[s] = "send"
          /\ IF pr_p[s].counter > 0
             THEN /\ pr_p' = [pr_p EXCEPT ![s].counter = @ - 1]
                  /\ pr_net' = pr_net \cup {[to |-> CHOOSE o \in Callers : o # s,
                                             class |-> IF pr_p[s].send_ack THEN "SuccessResponse"
                                                       ELSE "Request"]}
                  /\ pr_pc' = [pr_pc EXCEPT ![s] = "wait"]
                  /\ UNCHANGED pr_res
             ELSE /\ pr_res' = [pr_res EXCEPT ![s] = prober_result(pr_p[s])]
                  /\ pr_pc' = [pr_pc EXCEPT ![s] = "done"]
                  /\ UNCHANGED <<pr_p, pr_net>>
          /\ UNCHANGED pr_acc
       \/ /\ pr_pc[s] = "wait"
          /\ \/ UNCHANGED <<pr_p, pr_acc>>
             \/ \E m \in pr_net :
                  /\ m.to = s
                  /\ ~(m.class = "Request" /\ pr_p[s].send_ack)
                  /\ pr_p' = [pr_p EXCEPT ![s] = prober_match(@, m.class, pr_retry)]
                  /\ pr_acc' = [pr_acc EXCEPT ![s] = @ \cup {m.class}]
          /\ pr_pc' = [pr_pc EXCEPT ![s] = "send"]
          /\ UNCHANGED <<pr_net, pr_res>>
    /\ UNCHANGED pr_retry
    /\ PrFrame

\* ---------------------------------------------------------------------
\* network.rs: what reaches the match of the prober loop from one inbound
\* packet, on the connected socket and through inet_listener
\* ---------------------------------------------------------------------

\* a check that looks at the session id only (a variant the authentication
\* rule rejects)
verify_stun_message_integrity_by_id(message, session_id, inet) ==
    session_id = inet.session_id

\* lines 147-175: the session id is the call's and the MessageIntegrity
\* attribute is present and made with the call's shared secret
verify_stun_message_integrity(message, session_id, inet) ==
    /\ session_id = inet.session_id
    /\ message.integrity # <<>>
    /\ message.integrity = <<inet.shared_secret>>

\* one packet arrives for the call with session id 7 while another call is
\* registered under 8. recv_routine (lines 276-309): a buffer that starts with
\* b"jmpr" is an Indication; else parse_stun_message (120-145: a STUN message,
\* method BINDING, transaction id b"jmpr" + session id), the integrity check
\* and the Request filter. inet_listener (82-118): parse_stun_message, the
\* registry entry of the message's session id, the integrity check against
\* that entry, its channel; conn_routine (311-319) filters the Request
RecvPacket ==
    /\ rv_out = "Idle"
    /\ LET inet == [session_id |-> 7, shared_secret |-> "s7"]
           registry == (7 :> inet) @@ (8 :> [session_id |-> 8, shared_secret |-> "s8"])
           parse_stun_message == IF /\ rv_pkt.form = "stun"
                                    /\ rv_pkt.method = "BINDING"
                                    /\ rv_pkt.transaction_id # <<>>
                                 THEN <<rv_pkt.transaction_id[1]>> ELSE <<>>
           filtered(class) == IF class = "Request" /\ rv_send_ack THEN "None" ELSE class
       IN  rv_out' =
             IF rv_path = "socket"
             THEN IF rv_pkt.form = "jmpr" THEN "Indication"
                  ELSE IF parse_stun_message = <<>> THEN "None"
                  ELSE IF ~verify_stun_message_integrity(rv_pkt, parse_stun_message[1], inet) THEN "None"
                  ELSE filtered(rv_pkt.class)
             ELSE IF parse_stun_message = <<>> THEN "None"
                  ELSE IF parse_stun_message[1] \notin DOMAIN registry THEN "None"
                  ELSE IF ~verify_stun_message_integrity(rv_pkt, parse_stun_message[1],
                                                          registry[parse_stun_message[1]]) THEN "None"
                  ELSE IF parse_stun_message[1] # inet.session_id THEN "None"
                  ELSE filtered(rv_pkt.class)
    /\ UNCHANGED <<rv_pkt, rv_path, rv_send_ack>>
    /\ RecvFrame

\* ---------------------------------------------------------------------
\* session.rs, bridge.rs, utils/cancellation.rs, bin/yggdrasil-jumper.rs:
\* session tasks, bridges, the admin API peers and the process shutdown
\* ---------------------------------------------------------------------

\* the session tasks the spawner may start
Tasks == {1, 2, 3}

\* remote overlay addresses of the router's sessions
Addrs == {"200::a", "200::b"}

\* HashMap::insert with the old record kept (a variant the one-record
\* property rejects)
HashMap_insert_keeping(map, key, value) ==
    map \cup {<<key, value>>}

\* HashMap::insert: the record of the key is replaced
HashMap_insert(map, key, value) ==
    {e \in map : e[1] # key} \cup {<<key, value>>}

\* HashMap::remove
HashMap_remove(map, key) ==
    {e \in map : e[1] # key}

\* HashMap::get
HashMap_get(map, key) ==
    {e[2] : e \in {x \in map : x[1] = key}}

\* a guard that counts the root's unit and the cancelled() futures only (a
\* variant the shutdown rule rejects)
GuardAlive_without_cleanups(main, wait, token) ==
    \/ main = "running"
    \/ \E t \in Tasks : wait[t] \in {"waiting", "missed"}

\* Arc::strong_count > 0 of the CancellationGuard: the root's active unit,
\* every pending cancelled() future and every remove_peer future hold one
GuardAlive(main, wait, token) ==
    \/ main = "running"
    \/ \E t \in Tasks : wait[t] \in {"waiting", "missed"}
    \/ \E t \in Tasks : token[t]

\* PassiveCancellationToken::cancelled called by task t: without a live guard
\* it returns at once; a future created after notify_waiters is never woken
Cancelled(t) ==
    IF ~GuardAlive(lf_main, [lf_wait EXCEPT ![t] = "none"], lf_token) THEN "ready"
    ELSE IF lf_main = "running" THEN "waiting" ELSE "missed"

\* the runtime has not been shut down
Running ==
    lf_main # "exited"

\* start_bridge and bridge return: the guards are dropped, each spawns its
\* removal, and the cancelled() future of the select! is dropped
ReturnFromBridge(t) ==
    /\ lf_guard' = [lf_guard EXCEPT ![t] = IF @ = "armed" THEN "spawned" ELSE @]
    /\ lf_wait' = [lf_wait EXCEPT ![t] = "none"]
    /\ lf_pc' = [lf_pc EXCEPT ![t] = "exit"]

\* session.rs 196-228: the spawner finds an untracked session, records it and
\* spawns its task
SpawnSession(t) ==
    /\ Running
    /\ lf_pc[t] = "free"
    /\ \A u \in Tasks : u < t => lf_pc[u] # "free"
    /\ \E addr \in Addrs :
        /\ HashMap_get(lf_sessions, addr) = {}
        /\ lf_sessions' = HashMap_insert(lf_sessions, addr, "Session")
        /\ lf_addr' = [lf_addr EXCEPT ![t] = addr]
    /\ lf_pc' = [lf_pc EXCEPT ![t] = "session"]
    /\ UNCHANGED <<lf_rec_rm, lf_guard, lf_wait, lf_lock, lf_peers, lf_h, lf_main, lf_token>>
    /\ LifeFrame

\* connect_session fails before a bridge is started
SessionFail(t) ==
    /\ Running
    /\ lf_pc[t] = "session"
    /\ lf_pc' = [lf_pc EXCEPT ![t] = "exit"]
    /\ UNCHANGED <<lf_addr, lf_sessions, lf_rec_rm, lf_guard, lf_wait, lf_lock, lf_peers, lf_h, lf_main, lf_token>>
    /\ LifeFrame

\* session.rs 227: the task removes the record of its address and ends
TaskExit(t) ==
    /\ Running
    /\ lf_pc[t] = "exit"
    /\ lf_sessions' = HashMap_remove(lf_sessions, lf_addr[t])
    /\ lf_pc' = [lf_pc EXCEPT ![t] = "ended"]
    /\ UNCHANGED <<lf_addr, lf_rec_rm, lf_guard, lf_wait, lf_lock, lf_peers, lf_h, lf_main, lf_token>>
    /\ LifeFrame

\* bridge.rs 403-418: add_peer takes the admin API lock and sends the request;
\* the router adds the peer or refuses
AddPeerRequest(t) ==
    /\ Running
    /\ lf_pc[t] = "session"
    /\ lf_lock = <<>>
    /\ lf_lock' = <<t>>
    /\ \E added \in BOOLEAN :
        /\ lf_peers' = IF added THEN lf_peers \cup {t} ELSE lf_peers
        /\ lf_h' = IF added THEN [lf_h EXCEPT !.added = @ \cup {t}] ELSE lf_h
    /\ lf_pc' = [lf_pc EXCEPT ![t] = "add_peer"]
    /\ UNCHANGED <<lf_addr, lf_sessions, lf_rec_rm, lf_guard, lf_wait, lf_main, lf_token>>
    /\ LifeFrame

\* bridge.rs 418-425: the response arrives; on success remove_peer(uri) is built
\* with an active token (382-387) and put under the drop guard (423)
AddPeerResponse(t) ==
    /\ Running
    /\ lf_pc[t] = "add_peer"
    /\ lf_lock = <<t>>
    /\ lf_lock' = <<>>
    /\ IF t \in lf_h.added
       THEN /\ lf_guard' = [lf_guard EXCEPT ![t] = "armed"]
            /\ lf_token' = [lf_token EXCEPT ![t] = GuardAlive(lf_main, lf_wait, lf_token)]
            /\ lf_pc' = [lf_pc EXCEPT ![t] = "accept"]
       ELSE /\ lf_pc' = [lf_pc EXCEPT ![t] = "exit"]
            /\ UNCHANGED <<lf_guard, lf_token>>
    /\ UNCHANGED <<lf_addr, lf_sessions, lf_rec_rm, lf_wait, lf_peers, lf_h, lf_main>>
    /\ LifeFrame

\* bridge.rs 440-443, 456-459: accept or peek times out or fails
AcceptFails(t) ==
    /\ Running
    /\ lf_pc[t] = "accept"
    /\ ReturnFromBridge(t)
    /\ UNCHANGED <<lf_addr, lf_sessions, lf_rec_rm, lf_lock, lf_peers, lf_h, lf_main, lf_token>>
    /\ LifeFrame

\* bridge.rs 203-225: bridge() records the bridge; a second bridge of the
\* address returns at once, the others arm the record guard and start waiting
BridgeInsert(t) ==
    /\ Running
    /\ lf_pc[t] \in {"session", "accept"}
    /\ lf_sessions' = HashMap_insert(lf_sessions, lf_addr[t], "Bridge")
    /\ IF "Bridge" \in HashMap_get(lf_sessions, lf_addr[t])
       THEN /\ ReturnFromBridge(t)
            /\ lf_h' = [lf_h EXCEPT !.refused = @ \cup {<<t, r>> : r \in {x \in Tasks :
                                        lf_pc[x] = "bridge" /\ lf_addr[x] = lf_addr[t]}}]
       ELSE /\ lf_pc' = [lf_pc EXCEPT ![t] = "bridge"]
            /\ lf_wait' = [lf_wait EXCEPT ![t] = Cancelled(t)]
            /\ UNCHANGED <<lf_guard, lf_h>>
    /\ UNCHANGED <<lf_addr, lf_rec_rm, lf_lock, lf_peers, lf_main, lf_token>>
    /\ LifeFrame

\* bridge.rs 232-268: a peers or sessions update that does not end the bridge:
\* the select! starts over with a new cancelled() future
BridgeLoop(t) ==
    /\ Running
    /\ lf_pc[t] = "bridge"
    /\ lf_wait' = [lf_wait EXCEPT ![t] = Cancelled(t)]
    /\ UNCHANGED <<lf_pc, lf_addr, lf_sessions, lf_rec_rm, lf_guard, lf_lock, lf_peers, lf_h, lf_main, lf_token>>
    /\ LifeFrame

\* bridge.rs 227-272: the bridge returns: relays closed, peer or session gone,
\* or its cancelled() future was notified
BridgeReturn(t) ==
    /\ Running
    /\ lf_pc[t] = "bridge"
    /\ ReturnFromBridge(t)
    /\ lf_rec_rm' = lf_rec_rm \cup {<<t, lf_addr[t]>>}
    /\ UNCHANGED <<lf_addr, lf_sessions, lf_lock, lf_peers, lf_h, lf_main, lf_token>>
    /\ LifeFrame

\* bridge.rs 216-221: the removal spawned by _bridge_record_guard runs
RecordRemove(t) ==
    /\ Running
    /\ <<t, lf_addr[t]>> \in lf_rec_rm
    /\ lf_sessions' = HashMap_remove(lf_sessions, lf_addr[t])
    /\ lf_rec_rm' = lf_rec_rm \ {<<t, lf_addr[t]>>}
    /\ UNCHANGED <<lf_pc, lf_addr, lf_guard, lf_wait, lf_lock, lf_peers, lf_h, lf_main, lf_token>>
    /\ LifeFrame

\* bridge.rs 388-396: the spawned remove_peer takes the admin API lock and
\* sends the request; the router drops the peer
RemovePeerRequest(t) ==
    /\ Running
    /\ lf_guard[t] = "spawned"
    /\ lf_lock = <<>>
    /\ lf_lock' = <<t>>
    /\ lf_peers' = lf_peers \ {t}
    /\ lf_h' = [lf_h EXCEPT !.removed = @ \cup {t}]
    /\ lf_guard' = [lf_guard EXCEPT ![t] = "issued"]
    /\ UNCHANGED <<lf_pc, lf_addr, lf_sessions, lf_rec_rm, lf_wait, lf_main, lf_token>>
    /\ LifeFrame

\* bridge.rs 396-399: the response arrives; the future ends and drops its token
RemovePeerResponse(t) ==
    /\ Running
    /\ lf_guard[t] = "issued"
    /\ lf_lock = <<t>>
    /\ lf_lock' = <<>>
    /\ lf_guard' = [lf_guard EXCEPT ![t] = "done"]
    /\ lf_token' = [lf_token EXCEPT ![t] = FALSE]
    /\ UNCHANGED <<lf_pc, lf_addr, lf_sessions, lf_rec_rm, lf_wait, lf_peers, lf_h, lf_main>>
    /\ LifeFrame

\* main 34-36 and CancellationRoot::cancel 29-38: start() returns, cancel()
\* notifies the waiters, drops the root's unit and awaits the guard's drop
MainCancel ==
    /\ lf_main = "running"
    /\ lf_main' = IF GuardAlive("cancelling", lf_wait, lf_token) THEN "cancelling" ELSE "exited"
    /\ UNCHANGED <<lf_pc, lf_addr, lf_sessions, lf_rec_rm, lf_guard, lf_wait, lf_lock, lf_peers, lf_h, lf_token>>
    /\ LifeFrame

\* cancellation.rs 46-50 and 35-37: the last token is gone, the guard's drop
\* fires the channel, cancel() returns and the process exits
MainExit ==
    /\ lf_main = "cancelling"
    /\ ~GuardAlive(lf_main, lf_wait, lf_token)
    /\ lf_main' = "exited"
    /\ UNCHANGED <<lf_pc, lf_addr, lf_sessions, lf_rec_rm, lf_guard, lf_wait, lf_lock, lf_peers, lf_h, lf_token>>
    /\ LifeFrame

Next ==
    \/ MainCancel
    \/ MainExit
    \/ \E t \in Tasks :
        \/ SpawnSession(t)
        \/ SessionFail(t)
        \/ TaskExit(t)
        \/ AddPeerRequest(t)
        \/ AddPeerResponse(t)
        \/ AcceptFails(t)
        \/ BridgeInsert(t)
        \/ BridgeLoop(t)
        \/ BridgeReturn(t)
        \/ RecordRemove(t)
        \/ RemovePeerRequest(t)
        \/ RemovePeerResponse(t)

\* ---------------------------------------------------------------------
\* session.rs: the spawner, connect_session and the SessionCache of one
\* remote overlay address
\* ---------------------------------------------------------------------

\* largest failed_yggdrasil_traversal the model counts to
MaxFailed == 3

\* most entries in a peers snapshot
MaxPeers == 2

\* session.rs 176-230, the loop body for the session of Ipv6(2, 0, 0): the
\* whitelist, the peers snapshot when avoid_redundant_peering is on, the
\* active_sessions record; then the record is inserted and the task spawned
SpawnNewSessions ==
    /\ LET addr == Ipv6(2, 0, 0)
           skip == \/ /\ ss_cfg.whitelist # <<>>
                      /\ ~whitelist_contains(ss_cfg.whitelist[1], addr)
                   \/ /\ ss_cfg.avoid_redundant_peering
                      /\ \E p \in ss_peers : p.address = <<addr>>
                   \/ ss_tracked
       IN  /\ ss_pass' = [tracked |-> ss_tracked, spawned |-> ~skip]
           /\ ss_tracked' = (ss_tracked \/ ~skip)
           /\ ss_pc' = IF skip THEN ss_pc ELSE "start"
    /\ UNCHANGED <<ss_cfg, ss_peers, ss_cleaner, ss_cache, ss_res>>
    /\ SessFrame

\* connect_session 40-85: is_jumper_supported (236-293) against the cache, the
\* limit and, with only_peers_advertising_jumper, the node info the router
\* returns; then the inactivity window of the session's uptime
ConnectSessionStart ==
    /\ ss_pc = "start"
    /\ \E node_info \in {"Err", "absent", "true", "false", "version", "other_version"},
          inactive \in BOOLEAN :
        LET limit_reached == /\ ss_cache # <<>>
                             /\ ss_cfg.failed_yggdrasil_traversal_limit # <<>>
                             /\ ss_cache[1].failed_yggdrasil_traversal
                                    >= ss_cfg.failed_yggdrasil_traversal_limit[1]
            cached == IF ss_cache # <<>> THEN ss_cache[1].jumper_supported ELSE <<>>
            asks == ~limit_reached /\ cached = <<>> /\ ss_cfg.only_peers_advertising_jumper
            is_supported == node_info \in {"true", "version"}
            entry == IF ss_cache = <<>>
                     THEN [jumper_supported |-> <<>>, failed_yggdrasil_traversal |-> 0]
                     ELSE ss_cache[1]
            supported == IF limit_reached THEN FALSE
                         ELSE IF cached # <<>> THEN cached[1]
                         ELSE IF ~ss_cfg.only_peers_advertising_jumper THEN TRUE
                         ELSE IF node_info = "Err" THEN FALSE
                         ELSE is_supported
        IN  /\ ss_cache' = IF asks /\ node_info # "Err"
                           THEN <<[entry EXCEPT !.jumper_supported = <<is_supported>>]>>
                           ELSE ss_cache
            /\ ss_pc' = IF supported /\ ~inactive THEN "traverse" ELSE "exit"
    /\ ss_pass' = <<>>
    /\ UNCHANGED <<ss_cfg, ss_peers, ss_cleaner, ss_tracked, ss_res>>
    /\ SessFrame

\* a cache update for every result of the traversal (a variant the rule for
\* failed_yggdrasil_traversal rejects)
ConnectSessionTraverse_counting_all ==
    /\ ss_pc = "traverse"
    /\ \E res \in {"Failed", "Unsuccessful", "Ok"} :
        LET entry == IF ss_cache = <<>>
                     THEN [jumper_supported |-> <<>>, failed_yggdrasil_traversal |-> 0]
                     ELSE ss_cache[1]
        IN  /\ ss_res' = res
            /\ res # "Ok" => entry.failed_yggdrasil_traversal < MaxFailed
            /\ ss_cache' = <<[entry EXCEPT !.failed_yggdrasil_traversal = IF res = "Ok" THEN 0 ELSE @ + 1]>>
            /\ ss_pc' = IF res = "Ok" THEN "try_session" ELSE "exit"
    /\ UNCHANGED <<ss_cfg, ss_peers, ss_cleaner, ss_tracked, ss_pass>>
    /\ SessFrame

\* connect_session 87-118: traverse_udp returns Err ("Failed": the socket
\* could not be made or connected), Ok(Err) ("Unsuccessful") or Ok(Ok(socket));
\* the first returns at line 100, the others update the cache entry
ConnectSessionTraverse ==
    /\ ss_pc = "traverse"
    /\ \E res \in {"Failed", "Unsuccessful", "Ok"} :
        LET entry == IF ss_cache = <<>>
                     THEN [jumper_supported |-> <<>>, failed_yggdrasil_traversal |-> 0]
                     ELSE ss_cache[1]
        IN  /\ ss_res' = res
            /\ res = "Unsuccessful" => entry.failed_yggdrasil_traversal < MaxFailed
            /\ ss_cache' = IF res = "Failed" THEN ss_cache
                           ELSE <<[entry EXCEPT !.failed_yggdrasil_traversal = IF res = "Ok" THEN 0 ELSE @ + 1]>>
            /\ ss_pc' = IF res = "Ok" THEN "try_session" ELSE "exit"
    /\ UNCHANGED <<ss_cfg, ss_peers, ss_cleaner, ss_tracked, ss_pass>>
    /\ SessFrame

\* connect_session 115: protocol::try_session returns, with any result
TrySessionReturn ==
    /\ ss_pc = "try_session"
    /\ ss_pc' = "exit"
    /\ UNCHANGED <<ss_cfg, ss_peers, ss_cleaner, ss_cache, ss_tracked, ss_pass, ss_res>>
    /\ SessFrame

\* a task that ends without removing its record (a variant the rule for
\* active_sessions rejects)
SessionTaskExit_keeping ==
    /\ ss_pc = "exit"
    /\ ss_pc' = "idle"
    /\ UNCHANGED <<ss_cfg, ss_peers, ss_cleaner, ss_cache, ss_tracked, ss_pass, ss_res>>
    /\ SessFrame

\* session.rs 227: connect_session has returned, the task removes the record
\* of its address and ends
SessionTaskExit ==
    /\ ss_pc = "exit"
    /\ ss_tracked' = FALSE
    /\ ss_pc' = "idle"
    /\ UNCHANGED <<ss_cfg, ss_peers, ss_cleaner, ss_cache, ss_pass, ss_res>>
    /\ SessFrame

\* session.rs 295-302: the sleep of the cleaner is over, the cache is cleared
NodeInfoCacheCleaner ==
    /\ ss_cleaner
    /\ ss_cache' = <<>>
    /\ UNCHANGED <<ss_cfg, ss_peers, ss_cleaner, ss_pc, ss_tracked, ss_pass, ss_res>>
    /\ SessFrame

SessNext ==
    \/ SpawnNewSessions
    \/ ConnectSessionStart
    \/ ConnectSessionTraverse
    \/ TrySessionReturn
    \/ SessionTaskExit
    \/ NodeInfoCacheCleaner

\* ---------------------------------------------------------------------
\* bridge.rs: the supervision loop of one bridge and the peers watch
\* ---------------------------------------------------------------------

\* most entries in a peers snapshot the bridge sees
MaxBridgePeers == 2

\* the peers branch without the `up` filter (a variant the supervision rule
\* rejects)
BridgePeersChanged_any_state ==
    /\ bw_pc = "running"
    /\ \E peers \in {s \in SUBSET [address : {<<>>, <<Ipv6(2, 0, 0)>>, <<Ipv6(2, 0, 1)>>},
                                  remote : {<<>>, <<"tcp://[::1]:1">>},
                                  up : BOOLEAN] : Cardinality(s) <= MaxBridgePeers},
          elapsed \in BOOLEAN :
        LET uri == "tcp://[::1]:1"
            monitor_address == Ipv6(2, 0, 0)
            delay_shutdown == bw_delay_shutdown /\ ~elapsed
        IN  /\ bw_delay_shutdown' = delay_shutdown
            /\ bw_snap' = <<peers>>
            /\ bw_pc' = IF ~delay_shutdown /\ ~\E p \in peers : p.remote = <<uri>>
                        THEN "not_connected"
                        ELSE IF \E p \in peers : /\ p.remote = <<uri>>
                                                 /\ p.address # <<>>
                                                 /\ p.address # <<monitor_address>>
                        THEN "wrong_node"
                        ELSE "running"
    /\ BwFrame

\* bridge.rs 199-201, 232-261: the peers watch changed. `elapsed`: the timer
\* started at line 201 is past peer_unconnected_check_delay, which clears
\* delay_shutdown (TRUE for Some, FALSE for None); then the test for an up
\* peer with the bridge's uri and the test for a peer of another address
BridgePeersChanged ==
    /\ bw_pc = "running"
    /\ \E peers \in {s \in SUBSET [address : {<<>>, <<Ipv6(2, 0, 0)>>, <<Ipv6(2, 0, 1)>>},
                                  remote : {<<>>, <<"tcp://[::1]:1">>},
                                  up : BOOLEAN] : Cardinality(s) <= MaxBridgePeers},
          elapsed \in BOOLEAN :
        LET uri == "tcp://[::1]:1"
            monitor_address == Ipv6(2, 0, 0)
            delay_shutdown == bw_delay_shutdown /\ ~elapsed
        IN  /\ bw_delay_shutdown' = delay_shutdown
            /\ bw_snap' = <<peers>>
            /\ bw_pc' = IF ~delay_shutdown /\ ~\E p \in {q \in peers : q.up} : p.remote = <<uri>>
                        THEN "not_connected"
                        ELSE IF \E p \in peers : /\ p.remote = <<uri>>
                                                 /\ p.address # <<>>
                                                 /\ p.address # <<monitor_address>>
                        THEN "wrong_node"
                        ELSE "running"
    /\ BwFrame

\* bridge.rs 226-230, 263-272: the relays closed, the session is gone from
\* the sessions watch, or the bridge was cancelled
BridgeEnds ==
    /\ bw_pc = "running"
    /\ bw_pc' = "closed"
    /\ UNCHANGED <<bw_delay_shutdown, bw_snap>>
    /\ BwFrame

BwNext ==
    \/ BridgePeersChanged
    \/ BridgeEnds

\* ---------------------------------------------------------------------
\* session.rs: the inactivity window at the head of connect_session
\* ---------------------------------------------------------------------

\* largest session uptime, in seconds
MaxUptime == 7

\* largest inactivity_delay_period, in seconds
MaxPeriod == 3

\* the window with both ends closed from the first period on (a variant the
\* code's comparisons reject)
ConnectSessionGate_closed ==
    /\ gt_out = "idle"
    /\ gt_out' = IF /\ gt_uptime # <<>>
                    /\ gt_uptime[1] >= gt_cfg.inactivity_delay_period
                    /\ gt_uptime[1] % gt_cfg.inactivity_delay_period <= gt_cfg.inactivity_delay
                 THEN "aborted" ELSE "sleep"
    /\ UNCHANGED <<gt_cfg, gt_uptime>>
    /\ GateFrame

\* session.rs 55-85: with a known uptime past the first period whose
\* remainder is below inactivity_delay connect_session returns Ok(()); else it
\* goes on to the alignment sleep
ConnectSessionGate ==
    /\ gt_out = "idle"
    /\ gt_out' = IF /\ gt_uptime # <<>>
                    /\ gt_uptime[1] > gt_cfg.inactivity_delay_period
                    /\ gt_uptime[1] % gt_cfg.inactivity_delay_period < gt_cfg.inactivity_delay
                 THEN "aborted" ELSE "sleep"
    /\ UNCHANGED <<gt_cfg, gt_uptime>>
    /\ GateFrame

\* ---------------------------------------------------------------------
\* bridge.rs: start_bridge, from its first line to the return of bridge()
\* ---------------------------------------------------------------------

\* longest config.yggdrasil_listen
MaxListen == 2

\* lines 306-373: the next url of config.yggdrasil_listen with the scheme of
\* the protocol is dialled, when the mode allows it. Tcp/Tls: the connection is
\* made within connect_as_client_timeout or the loop goes on. Quic: the lookup
\* fails and the loop goes on, or making the socket fails and start_bridge
\* returns, or the socket is taken whatever connect() returned. A socket
\* whose local address cannot be read is passed over
StartBridgeConnect ==
    /\ sb_pc = "connect"
    /\ sb_in.connection_mode \in {"Any", "AsClient"}
    /\ \E j \in (sb_i + 1)..Len(sb_in.yggdrasil_listen) :
        /\ sb_in.yggdrasil_listen[j] = sb_in.protocol
        /\ \A k \in (sb_i + 1)..(j - 1) : sb_in.yggdrasil_listen[k] # sb_in.protocol
        /\ \E outcome \in IF sb_in.protocol = "quic"
                          THEN {"lookup_failed", "socket_failed", "connect_failed",
                                "connected", "no_local_addr"}
                          ELSE {"connect_failed", "connected", "no_local_addr"} :
            /\ sb_h' = [sb_h EXCEPT !.dialled = Append(@, outcome)]
            /\ sb_i' = j
            /\ sb_pc' = IF outcome = "connected" THEN "bridge"
                        ELSE IF outcome = "socket_failed" THEN "failed"
                        ELSE IF outcome = "connect_failed" /\ sb_in.protocol = "quic" THEN "bridge"
                        ELSE "connect"
    /\ UNCHANGED <<sb_in, sb_guard>>
    /\ SbFrame

\* add_peer and remove_peer given one string (a variant that drops the
\* password from the request to the router)
StartBridgeFallback_bare_uri ==
    /\ sb_pc = "connect"
    /\ \/ sb_in.connection_mode = "AsServer"
       \/ \A j \in (sb_i + 1)..Len(sb_in.yggdrasil_listen) :
                sb_in.yggdrasil_listen[j] # sb_in.protocol
    /\ IF sb_in.connection_mode = "AsClient"
       THEN /\ sb_pc' = "failed"
            /\ UNCHANGED <<sb_h, sb_guard>>
       ELSE \E outcome \in {"socket_failed", "add_peer_failed", "accept_failed", "accepted"} :
            LET uri == <<sb_in.protocol, "://", "127.0.0.1", ":", "40000">>
            IN  /\ sb_h' = IF outcome = "socket_failed" THEN sb_h
                           ELSE [sb_h EXCEPT !.add_peer = <<uri>>]
                /\ sb_guard' = IF outcome \in {"accept_failed", "accepted"} THEN <<uri>> ELSE <<>>
                /\ sb_pc' = IF outcome = "accepted" THEN "bridge" ELSE "failed"
    /\ UNCHANGED <<sb_in, sb_i>>
    /\ SbFrame

\* lines 375-468, reached when the loop is over: AsClient returns Err; else
\* the local socket is made, add_peer is sent the uri, with "?password=" and
\* the password when there is one, remove_peer(uri) is put under the guard
\* once the router accepted, and the router's connection is awaited
StartBridgeFallback ==
    /\ sb_pc = "connect"
    /\ \/ sb_in.connection_mode = "AsServer"
       \/ \A j \in (sb_i + 1)..Len(sb_in.yggdrasil_listen) :
                sb_in.yggdrasil_listen[j] # sb_in.protocol
    /\ IF sb_in.connection_mode = "AsClient"
       THEN /\ sb_pc' = "failed"
            /\ UNCHANGED <<sb_h, sb_guard>>
       ELSE \E outcome \in {"socket_failed", "add_peer_failed", "accept_failed", "accepted"} :
            LET uri == <<sb_in.protocol, "://", "127.0.0.1", ":", "40000">>
                request == IF sb_in.server_password # <<>>
                           THEN uri \o <<"?password=", sb_in.server_password[1]>>
                           ELSE uri
            IN  /\ sb_h' = IF outcome = "socket_failed" THEN sb_h
                           ELSE [sb_h EXCEPT !.add_peer = <<request>>]
                /\ sb_guard' = IF outcome \in {"accept_failed", "accepted"} THEN <<uri>> ELSE <<>>
                /\ sb_pc' = IF outcome = "accepted" THEN "bridge" ELSE "failed"
    /\ UNCHANGED <<sb_in, sb_i>>
    /\ SbFrame

\* bridge() returns, or start_bridge has returned: the guard is dropped and
\* the remove_peer future it spawns (lines 382-401) sends its request
StartBridgeReturn ==
    /\ \/ sb_pc = "bridge"
       \/ sb_pc = "failed" /\ sb_guard # <<>>
    /\ sb_pc' = "returned"
    /\ sb_h' = IF sb_guard # <<>> THEN [sb_h EXCEPT !.remove_peer = sb_guard] ELSE sb_h
    /\ sb_guard' = <<>>
    /\ UNCHANGED <<sb_in, sb_i>>
    /\ SbFrame

\* ---------------------------------------------------------------------
\* admin_api.rs: monitor and reconnect, with the bridges that watch the
\* sessions it publishes and main's select! over the monitor task
\* ---------------------------------------------------------------------

\* overlay addresses of the sessions the router may report
MaxSessions == 2

\* a task woken by a watch::Sender::send, or spawned by a dropped guard, that
\* has not been polled yet. The runtime has one thread
\* (yggdrasil-jumper.rs:31) and runs woken tasks in the order they were
\* woken, so they are polled before the monitor's next I/O completes
AdminRunQueue ==
    {b \in 1..MaxSessions : \/ am_bridge[b] = "running" /\ am_unseen[b]
                            \/ am_bridge[b] = "closed"}

\* monitor leaving the watches as they are on the way to reconnect() (a
\* variant without lines 195-201)
MonitorQuery_no_reset ==
    /\ am_pc = "query"
    /\ am_exit = <<>>
    /\ AdminRunQueue = {}
    /\ \E sessions \in {<<"io">>, <<"api">>} \cup {<<"ok", S>> : S \in SUBSET (1..MaxSessions)},
          peers \in {<<"io">>, <<"api">>} \cup {<<"ok", S>> : S \in SUBSET (1..MaxSessions)} :
        LET sent == IF sessions[1] = "ok" THEN sessions[2] ELSE am_sessions
            failed == sessions[1] = "api" \/ (sessions[1] = "ok" /\ peers[1] = "api")
            lost == sessions[1] = "io" \/ (sessions[1] = "ok" /\ peers[1] = "io")
        IN  /\ am_errors' = am_errors \cup (IF sessions[1] # "ok" THEN {sessions[1]}
                                            ELSE {peers[1]} \ {"ok"})
            /\ am_pc' = IF failed THEN "returned_err"
                        ELSE IF lost THEN (IF am_reconnect THEN "reconnect" ELSE "returned_err")
                        ELSE "query"
            /\ am_sessions' = sent
            /\ am_peers' = IF sessions[1] = "ok" /\ peers[1] = "ok" THEN peers[2]
                           ELSE am_peers
            /\ am_unseen' = [b \in 1..MaxSessions |->
                    /\ am_bridge[b] = "running"
                    /\ \/ am_unseen[b]
                       \/ sessions[1] = "ok"]
    /\ UNCHANGED <<am_reconnect, am_bridge, am_record, am_exit>>
    /\ AmFrame

\* monitor, lines 172-203: one round of the inner loop and what follows the
\* break. get_sessions, then get_peers: an I/O error breaks the loop, an error
\* response returns Err through `?`, a list is sent on its watch. After the
\* break: Err when reconnect is off, else both watches are sent an empty
\* list unless they hold one, and reconnect() is entered
MonitorQuery ==
    /\ am_pc = "query"
    /\ am_exit = <<>>
    /\ AdminRunQueue = {}
    /\ \E sessions \in {<<"io">>, <<"api">>} \cup {<<"ok", S>> : S \in SUBSET (1..MaxSessions)},
          peers \in {<<"io">>, <<"api">>} \cup {<<"ok", S>> : S \in SUBSET (1..MaxSessions)} :
        LET sent == IF sessions[1] = "ok" THEN sessions[2] ELSE am_sessions
            failed == sessions[1] = "api" \/ (sessions[1] = "ok" /\ peers[1] = "api")
            lost == sessions[1] = "io" \/ (sessions[1] = "ok" /\ peers[1] = "io")
        IN  /\ am_errors' = am_errors \cup (IF sessions[1] # "ok" THEN {sessions[1]}
                                            ELSE {peers[1]} \ {"ok"})
            /\ am_pc' = IF failed THEN "returned_err"
                        ELSE IF lost THEN (IF am_reconnect THEN "reconnect" ELSE "returned_err")
                        ELSE "query"
            /\ am_sessions' = IF lost /\ am_reconnect THEN {} ELSE sent
            /\ am_peers' = IF lost /\ am_reconnect THEN {}
                           ELSE IF sessions[1] = "ok" /\ peers[1] = "ok" THEN peers[2]
                           ELSE am_peers
            /\ am_unseen' = [b \in 1..MaxSessions |->
                    /\ am_bridge[b] = "running"
                    /\ \/ am_unseen[b]
                       \/ sessions[1] = "ok"
                       \/ lost /\ am_reconnect /\ sent # {}]
    /\ UNCHANGED <<am_reconnect, am_bridge, am_record, am_exit>>
    /\ AmFrame

\* admin_api::reconnect under monitor (line 203, lines 144-158): connect()
\* gave a router and the outer loop starts over, or it failed and the loop
\* sleeps and tries again (reconnect is on here)
MonitorReconnect ==
    /\ am_pc = "reconnect"
    /\ am_exit = <<>>
    /\ AdminRunQueue = {}
    /\ \E connected \in BOOLEAN :
        am_pc' = IF connected THEN "query" ELSE "reconnect"
    /\ UNCHANGED <<am_reconnect, am_sessions, am_peers, am_unseen, am_bridge, am_record,
                   am_errors, am_exit>>
    /\ AmFrame

\* bridge.rs 210-221: a bridge for a reported session starts running: it
\* clones the watch, records itself and arms the guard of its record
AdminBridgeStart(b) ==
    /\ am_exit = <<>>
    /\ am_bridge[b] = "none"
    /\ b \in am_sessions
    /\ am_bridge' = [am_bridge EXCEPT ![b] = "running"]
    /\ am_record' = [am_record EXCEPT ![b] = TRUE]
    /\ am_unseen' = [am_unseen EXCEPT ![b] = TRUE]
    /\ UNCHANGED <<am_reconnect, am_pc, am_sessions, am_peers, am_errors, am_exit>>
    /\ AmFrame

\* bridge.rs 263-269: watch_sessions.changed() of a running bridge: it
\* returns when no session of its address is in the list
AdminBridgeSessionsChanged(b) ==
    /\ am_exit = <<>>
    /\ am_bridge[b] = "running"
    /\ am_unseen[b]
    /\ am_unseen' = [am_unseen EXCEPT ![b] = FALSE]
    /\ am_bridge' = [am_bridge EXCEPT ![b] = IF b \in am_sessions THEN "running" ELSE "closed"]
    /\ UNCHANGED <<am_reconnect, am_pc, am_sessions, am_peers, am_record, am_errors, am_exit>>
    /\ AmFrame

\* bridge.rs 215-221: the future spawned by the dropped _bridge_record_guard
\* removes the record from active_sessions
AdminBridgeRecordRemoved(b) ==
    /\ am_exit = <<>>
    /\ am_bridge[b] = "closed"
    /\ am_bridge' = [am_bridge EXCEPT ![b] = "none"]
    /\ am_record' = [am_record EXCEPT ![b] = FALSE]
    /\ UNCHANGED <<am_reconnect, am_pc, am_sessions, am_peers, am_unseen, am_errors, am_exit>>
    /\ AmFrame

\* yggdrasil-jumper.rs 112-146 and 32-39: the monitor task has ended, the
\* select! of start() ends, start() returns Err(()) and main exits with 1
MonitorEndsMain ==
    /\ am_pc = "returned_err"
    /\ am_exit = <<>>
    /\ am_exit' = <<1>>
    /\ UNCHANGED <<am_reconnect, am_pc, am_sessions, am_peers, am_unseen, am_bridge, am_record,
                   am_errors>>
    /\ AmFrame

\* ---------------------------------------------------------------------
\* proxy_udp.rs, proxy_tcp.rs: relay threads and state.active_proxies
\* ---------------------------------------------------------------------

\* relay threads the setup code spawns, one after the other
MaxProxies == 4

\* proxy_udp.rs 47-105 (proxy_tcp.rs 86-346 alike): the setup code spawns
\* the relay thread and takes its id (lines 54-102); then, at its next
\* step, it takes the write lock and inserts the id (line 104). The threads
\* are set up in order
SetupProxy(t) ==
    /\ \/ /\ px_setup[t] = "spawn"
          /\ \A u \in 1..(t - 1) : px_setup[u] = "done"
          /\ px_setup' = [px_setup EXCEPT ![t] = "insert"]
          /\ px_thread' = [px_thread EXCEPT ![t] = "running"]
          /\ UNCHANGED active_proxies
       \/ /\ px_setup[t] = "insert"
          /\ px_setup' = [px_setup EXCEPT ![t] = "done"]
          /\ active_proxies' = active_proxies \cup {t}
          /\ UNCHANGED px_thread
    /\ PxFrame

\* proxy_udp.rs 63-69 (proxy_tcp.rs 105-111, 224-230): the relay loop is
\* left, for an error of recv or send or the closed term channel, and the
\* thread's guard removes its id under the write lock
ProxyThreadExit(t) ==
    /\ px_thread[t] = "running"
    /\ px_thread' = [px_thread EXCEPT ![t] = "exited"]
    /\ active_proxies' = active_proxies \ {t}
    /\ UNCHANGED px_setup
    /\ PxFrame

\* ---------------------------------------------------------------------
\* protocol.rs: try_session, the handshake of two daemons
\* ---------------------------------------------------------------------

VERSION_PREFIX ==
    <<"y", "g", "g", "d", "r", "a", "s", "i", "l", "-", "j", "u", "m", "p", "e", "r", "-", "v">>

VERSION_NUMBER ==
    <<"0", ".", "1">>

\* the two daemons of one rendezvous
Sides == {"a", "b"}

\* a version check that wants the own version exactly (a variant the version
\* rule rejects)
remote_header_version_exact(version) ==
    IF version = VERSION_PREFIX \o VERSION_NUMBER THEN <<<<"0", "1">>>> ELSE <<>>

\* lines 186-191: remote_header_version: strip_prefix, then the first two
\* dot-separated parts that parse as u32; <<>> for None, <<parts>> for Some
remote_header_version(version) ==
    LET RECURSIVE split(_, _)
        split(s, c) ==
            IF \A i \in 1..Len(s) : s[i] # c THEN <<s>>
            ELSE LET i == CHOOSE i \in 1..Len(s) : s[i] = c /\ \A j \in 1..(i - 1) : s[j] # c
                 IN  <<SubSeq(s, 1, i - 1)>> \o split(SubSeq(s, i + 1, Len(s)), c)
        parses_u32(s) ==
            /\ s # <<>>
            /\ \A i \in 1..Len(s) : s[i] \in {"0", "1", "2", "3", "4", "5", "6", "7", "8", "9"}
    IN  IF ~StartsWith(version, VERSION_PREFIX) THEN <<>>
        ELSE <<SelectSeq(Take(split(Drop(version, Len(VERSION_PREFIX)), "."), 2), parses_u32)>>

\* Nonce::try_from: 16 characters, each a digit or an ASCII letter
Nonce_try_from(nonce) ==
    /\ Len(nonce) = 16
    /\ \A i \in 1..Len(nonce) : nonce[i] \in
        {"0", "1", "2", "3", "4", "5", "6", "7", "8", "9",
         "a", "b", "c", "d", "e", "f", "g", "h", "i", "j", "k", "l", "m", "n", "o", "p", "q",
         "r", "s", "t", "u", "v", "w", "x", "y", "z", "A", "B", "C", "D", "E", "F", "G", "H",
         "I", "J", "K", "L", "M", "N", "O", "P", "Q", "R", "S", "T", "U", "V", "W", "X", "Y", "Z"}

\* lines 136-162: self_protocols, for a daemon with a mapping for every
\* transport and a router that supports every protocol
self_protocols(cfg) ==
    [i \in 1..Len(cfg.yggdrasil_protocols) |->
        [protocol |-> cfg.yggdrasil_protocols[i],
         server_available |-> \/ cfg.yggdrasil_protocols[i] = "Tcp"
                              \/ cfg.yggdrasil_protocols[i] \in cfg.yggdrasil_listen]]

\* lines 215-227: each own protocol with the first compatible protocol of the
\* remote list (HeaderRouterProtocol::compatible), sorted by the priority of
\* the own protocol (HeaderRouterProtocol::priority_ascending)
common_protocols(own, remote) ==
    LET compatible(self, other) ==
            /\ self.protocol = other.protocol
            /\ self.server_available \/ other.server_available
        priority_ascending(p) ==
            CASE p.protocol = "Tcp" -> 0
              [] p.protocol = "Quic" -> 1
              [] p.protocol = "Tls" -> 2
        pair(p) == <<p, remote[CHOOSE i \in 1..Len(remote) :
                            /\ compatible(p, remote[i])
                            /\ \A j \in 1..(i - 1) : ~compatible(p, remote[j])]>>
        has(p) == \E i \in 1..Len(remote) : compatible(p, remote[i])
        kept == SelectSeq(own, has)
        pairs == [i \in 1..Len(kept) |-> pair(kept[i])]
        at(k) == SelectSeq(pairs, LAMBDA q : priority_ascending(q[1]) = k)
    IN  at(0) \o at(1) \o at(2)

\* Ipv6Addr < Ipv6Addr: the octets compared in order
Ipv6Less(x, y) ==
    \E i \in 1..Len(x) :
        /\ x[i] < y[i]
        /\ \A j \in 1..(i - 1) : x[j] = y[j]

\* connection_mode without the tie-break on the addresses (a variant the
\* complementarity of the two sides rejects)
connection_mode_no_tie_break(self_protocol, remote_protocol, address, router_address) ==
    IF self_protocol.protocol = "Tcp" THEN "Any"
    ELSE IF self_protocol.server_available THEN "AsClient" ELSE "AsServer"

\* lines 285-305: connection_mode; address is the remote's overlay address,
\* router_address is state.router.address
connection_mode(self_protocol, remote_protocol, address, router_address) ==
    IF self_protocol.protocol = "Tcp" THEN "Any"
    ELSE IF self_protocol.server_available = remote_protocol.server_available
    THEN IF Ipv6Less(address, router_address) THEN "AsClient" ELSE "AsServer"
    ELSE IF self_protocol.server_available THEN "AsClient" ELSE "AsServer"

\* lines 183-227: the remote header arrives; version and nonce are checked and
\* the common protocols computed
HsReceiveHeader(s) ==
    /\ hs_run[s].pc = "header"
    /\ LET header == hs_hdr[s]
           common == common_protocols(self_protocols(hs_cfg[s]), header.protocols)
           fail(why) == [hs_run[s] EXCEPT !.pc = "failed", !.result = why]
       IN  hs_run' = [hs_run EXCEPT ![s] =
                IF remote_header_version(header.version) = <<>> THEN fail("IncompatibleVersion")
                ELSE IF header.nonce # <<>> /\ ~Nonce_try_from(header.nonce[1])
                THEN fail("BadNonce")
                ELSE IF header.nonce = <<>> /\ hs_cfg[s].force_nonce_peering_password
                THEN fail("MissingNonce")
                ELSE IF common = <<>> THEN fail("NoCommonProtocol")
                ELSE [@ EXCEPT !.pc = "round", !.common = common]]
    /\ UNCHANGED <<hs_cfg, hs_hdr>>
    /\ HsFrame

\* lines 230-377: one turn of the loop over the common protocols: without an
\* address to share it fails at once; otherwise the own candidate address is
\* sent, the mode selected, and the traversal fails or yields the socket
HsRound(s) ==
    /\ hs_run[s].pc = "round"
    /\ LET r == hs_run[s]
           pair == r.common[r.k]
           mode == connection_mode(pair[1], pair[2], hs_cfg[CHOOSE o \in Sides : o # s].address, hs_cfg[s].address)
           next(x) == IF r.k < Len(r.common) THEN [x EXCEPT !.k = r.k + 1]
                      ELSE [x EXCEPT !.pc = "failed"]
           tried == [r EXCEPT !.sent = r.sent + 1,
                              !.modes = Append(r.modes, <<pair[1].protocol, mode>>)]
       IN  \E outcome \in {"NoAddress", "TraversalFailed", "Bridge"} :
            hs_run' = [hs_run EXCEPT ![s] =
                CASE outcome = "NoAddress" -> next([r EXCEPT !.result = outcome])
                  [] outcome = "TraversalFailed" -> next([tried EXCEPT !.result = outcome])
                  [] outcome = "Bridge" -> [tried EXCEPT !.pc = "bridge", !.result = mode]]
    /\ UNCHANGED <<hs_cfg, hs_hdr>>
    /\ HsFrame

HsNext ==
    \E s \in Sides :
        \/ HsReceiveHeader(s)
        \/ HsRound(s)

\* ---------------------------------------------------------------------
\* utils/timeout.rs: Timeout::new and its Iterator
\* ---------------------------------------------------------------------

\* durations are whole nanoseconds, as in std::time::Duration; the inputs are
\* so small that the f64 quotient and the f32 products are exact before they
\* are rounded to a nanosecond
MaxRetryTime == 6

MaxCycles == 4

\* lines 30-55: Timeout::new. new_exponential divides retry_time * cycle_count
\* by 2^cycle_count - 1 (div_f64 rounds to the nearest nanosecond; the divisor
\* is odd, so there are no ties); for cycle_count = 0 the quotient is 0.0 / 0.0
\* and div_f64 panics
TimeoutNew ==
    /\ tm_pc = "new"
    /\ IF tm_cfg.is_exponential
       THEN IF Pow2(tm_cfg.cycle_count) - 1 = 0
            THEN /\ tm_pc' = "panic"
                 /\ UNCHANGED tm_self
            ELSE /\ tm_self' = [t0 |-> (2 * tm_cfg.retry_time * tm_cfg.cycle_count + Pow2(tm_cfg.cycle_count) - 1)
                                           \div (2 * (Pow2(tm_cfg.cycle_count) - 1)),
                                cycles_left |-> tm_cfg.cycle_count,
                                next_scale |-> <<1>>]
                 /\ tm_pc' = "iter"
       ELSE /\ tm_self' = [t0 |-> tm_cfg.retry_time, cycles_left |-> tm_cfg.cycle_count, next_scale |-> <<>>]
            /\ tm_pc' = "iter"
    /\ UNCHANGED <<tm_cfg, tm_out>>
    /\ TimeoutFrame

\* lines 61-74: Iterator::next, called until it returns None
TimeoutIterNext ==
    /\ tm_pc = "iter"
    /\ IF tm_self.cycles_left = 0
       THEN /\ tm_pc' = "done"
            /\ UNCHANGED <<tm_self, tm_out>>
       ELSE /\ tm_self' = [tm_self EXCEPT !.cycles_left = @ - 1,
                                          !.next_scale = IF @ = <<>> THEN @ ELSE <<2 * @[1]>>]
            /\ tm_out' = Append(tm_out, IF tm_self.next_scale = <<>> THEN tm_self.t0
                                        ELSE tm_self.t0 * tm_self.next_scale[1])
            /\ UNCHANGED tm_pc
    /\ UNCHANGED tm_cfg
    /\ TimeoutFrame

TimeoutNext ==
    \/ TimeoutNew
    \/ TimeoutIterNext

\* ---------------------------------------------------------------------
\* Specifications: one group of variables runs, the others stay idle
\* ---------------------------------------------------------------------

InitWhitelist ==
    /\ wl_whitelist \in {<<>>} \cup {<<w>> : w \in {x \in SUBSET AddrPool : Cardinality(x) <= MaxWhitelist}}
    /\ wl_addr \in AddrPool
    /\ wl_result = "idle"
    /\ p_pkts = <<>>
    /\ p_buf = <<>>
    /\ p_pos = 0
    /\ p_cuts = <<>>
    /\ p_last = ParseIdleMark
    /\ vi_value = {}
    /\ vi_buf = <<>>
    /\ vi_result = [kind |-> "Idle", value |-> {}, varint_len |-> 0]
    /\ d_pkts = <<>>
    /\ d_in = <<>>
    /\ d_reads = 0
    /\ d_fallback = FALSE
    /\ s_skip = 0
    /\ s_pf = FALSE
    /\ s_left = <<>>
    /\ s_seen = FALSE
    /\ k_segs = <<>>
    /\ k_open = FALSE
    /\ u_q = <<>>
    /\ r_skip = 0
    /\ r_backlog = <<>>
    /\ r_pf = FALSE
    /\ r_seen = FALSE
    /\ d_out = <<>>
    /\ h_late = FALSE
    /\ h_fb_calls = 0
    /\ st_cfg = [yggdrasil_protocols |-> <<>>, local |-> <<>>, stun_randomize |-> FALSE]
    /\ st_servers = <<>>
    /\ st_external = <<>>
    /\ st_i = 0
    /\ st_pc = "pass"
    /\ st_watch = <<>>
    /\ st_asked = <<>>
    /\ st_seen = <<>>
    /\ tr_pc = <<>>
    /\ tr_inet = <<>>
    /\ tr_retry = <<>>
    /\ tr_guard = <<>>
    /\ tr_prober = <<>>
    /\ tr_result = <<>>
    /\ tr_map = <<>>
    /\ tr_spawned = {}
    /\ tr_h = <<>>
    /\ rv_pkt = <<>>
    /\ rv_path = "socket"
    /\ rv_send_ack = FALSE
    /\ rv_out = "Idle"
    /\ lf_pc = <<>>
    /\ lf_addr = <<>>
    /\ lf_sessions = {}
    /\ lf_rec_rm = {}
    /\ lf_guard = <<>>
    /\ lf_token = <<>>
    /\ lf_wait = <<>>
    /\ lf_lock = <<>>
    /\ lf_peers = {}
    /\ lf_h = <<>>
    /\ lf_main = "running"
    /\ ss_cfg = <<>>
    /\ ss_peers = {}
    /\ ss_cleaner = FALSE
    /\ ss_cache = <<>>
    /\ ss_pc = "idle"
    /\ ss_tracked = FALSE
    /\ ss_pass = <<>>
    /\ ss_res = "None"
    /\ bw_delay_shutdown = TRUE
    /\ bw_pc = "running"
    /\ bw_snap = <<>>
    /\ gt_cfg = <<>>
    /\ gt_uptime = <<>>
    /\ gt_out = "idle"
    /\ sb_in = <<>>
    /\ sb_i = 0
    /\ sb_pc = "connect"
    /\ sb_guard = <<>>
    /\ sb_h = <<>>
    /\ am_reconnect = FALSE
    /\ am_pc = "query"
    /\ am_sessions = {}
    /\ am_peers = {}
    /\ am_unseen = <<>>
    /\ am_bridge = <<>>
    /\ am_record = <<>>
    /\ am_errors = {}
    /\ am_exit = <<>>
    /\ px_setup = <<>>
    /\ px_thread = <<>>
    /\ active_proxies = {}
    /\ pr_retry = 0
    /\ pr_p = <<>>
    /\ pr_pc = <<>>
    /\ pr_net = {}
    /\ pr_acc = <<>>
    /\ pr_res = <<>>
    /\ tm_cfg = <<>>
    /\ tm_self = <<>>
    /\ tm_out = <<>>
    /\ tm_pc = "new"
    /\ hs_cfg = <<>>
    /\ hs_hdr = <<>>
    /\ hs_run = <<>>

SpecWhitelist ==
    InitWhitelist /\ [][WlNext]_vars

InitParse ==
    /\ wl_whitelist = <<>>
    /\ wl_addr = Ipv6(2, 0, 0)
    /\ wl_result = "idle"
    /\ p_pkts \in {<<MetaHeader>> \o s : s \in SeqsUpTo(ParsePool, MaxParsePkts)}
    /\ p_buf \in {Take(Flatten(p_pkts), n) : n \in 0..Len(Flatten(p_pkts))}
    /\ p_pos = 0
    /\ p_cuts = <<>>
    /\ p_last = ParseIdleMark
    /\ vi_value = {}
    /\ vi_buf = <<>>
    /\ vi_result = [kind |-> "Idle", value |-> {}, varint_len |-> 0]
    /\ d_pkts = <<>>
    /\ d_in = <<>>
    /\ d_reads = 0
    /\ d_fallback = FALSE
    /\ s_skip = 0
    /\ s_pf = FALSE
    /\ s_left = <<>>
    /\ s_seen = FALSE
    /\ k_segs = <<>>
    /\ k_open = FALSE
    /\ u_q = <<>>
    /\ r_skip = 0
    /\ r_backlog = <<>>
    /\ r_pf = FALSE
    /\ r_seen = FALSE
    /\ d_out = <<>>
    /\ h_late = FALSE
    /\ h_fb_calls = 0
    /\ st_cfg = [yggdrasil_protocols |-> <<>>, local |-> <<>>, stun_randomize |-> FALSE]
    /\ st_servers = <<>>
    /\ st_external = <<>>
    /\ st_i = 0
    /\ st_pc = "pass"
    /\ st_watch = <<>>
    /\ st_asked = <<>>
    /\ st_seen = <<>>
    /\ tr_pc = <<>>
    /\ tr_inet = <<>>
    /\ tr_retry = <<>>
    /\ tr_guard = <<>>
    /\ tr_prober = <<>>
    /\ tr_result = <<>>
    /\ tr_map = <<>>
    /\ tr_spawned = {}
    /\ tr_h = <<>>
    /\ rv_pkt = <<>>
    /\ rv_path = "socket"
    /\ rv_send_ack = FALSE
    /\ rv_out = "Idle"
    /\ lf_pc = <<>>
    /\ lf_addr = <<>>
    /\ lf_sessions = {}
    /\ lf_rec_rm = {}
    /\ lf_guard = <<>>
    /\ lf_token = <<>>
    /\ lf_wait = <<>>
    /\ lf_lock = <<>>
    /\ lf_peers = {}
    /\ lf_h = <<>>
    /\ lf_main = "running"
    /\ ss_cfg = <<>>
    /\ ss_peers = {}
    /\ ss_cleaner = FALSE
    /\ ss_cache = <<>>
    /\ ss_pc = "idle"
    /\ ss_tracked = FALSE
    /\ ss_pass = <<>>
    /\ ss_res = "None"
    /\ bw_delay_shutdown = TRUE
    /\ bw_pc = "running"
    /\ bw_snap = <<>>
    /\ gt_cfg = <<>>
    /\ gt_uptime = <<>>
    /\ gt_out = "idle"
    /\ sb_in = <<>>
    /\ sb_i = 0
    /\ sb_pc = "connect"
    /\ sb_guard = <<>>
    /\ sb_h = <<>>
    /\ am_reconnect = FALSE
    /\ am_pc = "query"
    /\ am_sessions = {}
    /\ am_peers = {}
    /\ am_unseen = <<>>
    /\ am_bridge = <<>>
    /\ am_record = <<>>
    /\ am_errors = {}
    /\ am_exit = <<>>
    /\ px_setup = <<>>
    /\ px_thread = <<>>
    /\ active_proxies = {}
    /\ pr_retry = 0
    /\ pr_p = <<>>
    /\ pr_pc = <<>>
    /\ pr_net = {}
    /\ pr_acc = <<>>
    /\ pr_res = <<>>
    /\ tm_cfg = <<>>
    /\ tm_self = <<>>
    /\ tm_out = <<>>
    /\ tm_pc = "new"
    /\ hs_cfg = <<>>
    /\ hs_hdr = <<>>
    /\ hs_run = <<>>

SpecParse ==
    InitParse /\ [][ParseNext]_vars

InitVarint ==
    /\ wl_whitelist = <<>>
    /\ wl_addr = Ipv6(2, 0, 0)
    /\ wl_result = "idle"
    /\ p_pkts = <<>>
    /\ p_buf = <<>>
    /\ p_pos = 0
    /\ p_cuts = <<>>
    /\ p_last = ParseIdleMark
    /\ vi_value \in LET RECURSIVE BitSets(_)
                  BitSets(k) == IF k = 0 THEN {{}}
                                ELSE BitSets(k - 1) \cup
                                     {s \cup {b} : s \in BitSets(k - 1), b \in 0..(U64_BITS - 1)}
              IN  BitSets(MaxOneBits)
    /\ vi_buf = LET RECURSIVE encode(_)
                encode(v) ==
                    LET low == {b \in v : b < 7}
                        rest == {b - 7 : b \in v \ low}
                        RECURSIVE sum(_)
                        sum(s) == IF s = {} THEN 0
                                  ELSE LET b == CHOOSE b \in s : TRUE IN Pow2(b) + sum(s \ {b})
                    IN  IF rest = {} THEN <<sum(low)>> ELSE <<sum(low) + 128>> \o encode(rest)
            IN  encode(vi_value)
    /\ vi_result = [kind |-> "Idle", value |-> {}, varint_len |-> 0]
    /\ d_pkts = <<>>
    /\ d_in = <<>>
    /\ d_reads = 0
    /\ d_fallback = FALSE
    /\ s_skip = 0
    /\ s_pf = FALSE
    /\ s_left = <<>>
    /\ s_seen = FALSE
    /\ k_segs = <<>>
    /\ k_open = FALSE
    /\ u_q = <<>>
    /\ r_skip = 0
    /\ r_backlog = <<>>
    /\ r_pf = FALSE
    /\ r_seen = FALSE
    /\ d_out = <<>>
    /\ h_late = FALSE
    /\ h_fb_calls = 0
    /\ st_cfg = [yggdrasil_protocols |-> <<>>, local |-> <<>>, stun_randomize |-> FALSE]
    /\ st_servers = <<>>
    /\ st_external = <<>>
    /\ st_i = 0
    /\ st_pc = "pass"
    /\ st_watch = <<>>
    /\ st_asked = <<>>
    /\ st_seen = <<>>
    /\ tr_pc = <<>>
    /\ tr_inet = <<>>
    /\ tr_retry = <<>>
    /\ tr_guard = <<>>
    /\ tr_prober = <<>>
    /\ tr_result = <<>>
    /\ tr_map = <<>>
    /\ tr_spawned = {}
    /\ tr_h = <<>>
    /\ rv_pkt = <<>>
    /\ rv_path = "socket"
    /\ rv_send_ack = FALSE
    /\ rv_out = "Idle"
    /\ lf_pc = <<>>
    /\ lf_addr = <<>>
    /\ lf_sessions = {}
    /\ lf_rec_rm = {}
    /\ lf_guard = <<>>
    /\ lf_token = <<>>
    /\ lf_wait = <<>>
    /\ lf_lock = <<>>
    /\ lf_peers = {}
    /\ lf_h = <<>>
    /\ lf_main = "running"
    /\ ss_cfg = <<>>
    /\ ss_peers = {}
    /\ ss_cleaner = FALSE
    /\ ss_cache = <<>>
    /\ ss_pc = "idle"
    /\ ss_tracked = FALSE
    /\ ss_pass = <<>>
    /\ ss_res = "None"
    /\ bw_delay_shutdown = TRUE
    /\ bw_pc = "running"
    /\ bw_snap = <<>>
    /\ gt_cfg = <<>>
    /\ gt_uptime = <<>>
    /\ gt_out = "idle"
    /\ sb_in = <<>>
    /\ sb_i = 0
    /\ sb_pc = "connect"
    /\ sb_guard = <<>>
    /\ sb_h = <<>>
    /\ am_reconnect = FALSE
    /\ am_pc = "query"
    /\ am_sessions = {}
    /\ am_peers = {}
    /\ am_unseen = <<>>
    /\ am_bridge = <<>>
    /\ am_record = <<>>
    /\ am_errors = {}
    /\ am_exit = <<>>
    /\ px_setup = <<>>
    /\ px_thread = <<>>
    /\ active_proxies = {}
    /\ pr_retry = 0
    /\ pr_p = <<>>
    /\ pr_pc = <<>>
    /\ pr_net = {}
    /\ pr_acc = <<>>
    /\ pr_res = <<>>
    /\ tm_cfg = <<>>
    /\ tm_self = <<>>
    /\ tm_out = <<>>
    /\ tm_pc = "new"
    /\ hs_cfg = <<>>
    /\ hs_hdr = <<>>
    /\ hs_run = <<>>

SpecVarint ==
    InitVarint /\ [][VarintDecode]_vars

InitDpi ==
    /\ wl_whitelist = <<>>
    /\ wl_addr = Ipv6(2, 0, 0)
    /\ wl_result = "idle"
    /\ p_pkts = <<>>
    /\ p_buf = <<>>
    /\ p_pos = 0
    /\ p_cuts = <<>>
    /\ p_last = ParseIdleMark
    /\ vi_value = {}
    /\ vi_buf = <<>>
    /\ vi_result = [kind |-> "Idle", value |-> {}, varint_len |-> 0]
    /\ d_pkts \in DpiStreams
    /\ d_in = Flatten(d_pkts)
    /\ d_reads = 0
    /\ d_fallback \in BOOLEAN
    /\ s_skip = 0
    /\ s_pf = FALSE
    /\ s_left = <<>>
    /\ s_seen = FALSE
    /\ k_segs = <<>>
    /\ k_open = FALSE
    /\ u_q = <<>>
    /\ r_skip = 0
    /\ r_backlog = <<>>
    /\ r_pf = FALSE
    /\ r_seen = FALSE
    /\ d_out = <<>>
    /\ h_late = FALSE
    /\ h_fb_calls = 0
    /\ st_cfg = [yggdrasil_protocols |-> <<>>, local |-> <<>>, stun_randomize |-> FALSE]
    /\ st_servers = <<>>
    /\ st_external = <<>>
    /\ st_i = 0
    /\ st_pc = "pass"
    /\ st_watch = <<>>
    /\ st_asked = <<>>
    /\ st_seen = <<>>
    /\ tr_pc = <<>>
    /\ tr_inet = <<>>
    /\ tr_retry = <<>>
    /\ tr_guard = <<>>
    /\ tr_prober = <<>>
    /\ tr_result = <<>>
    /\ tr_map = <<>>
    /\ tr_spawned = {}
    /\ tr_h = <<>>
    /\ rv_pkt = <<>>
    /\ rv_path = "socket"
    /\ rv_send_ack = FALSE
    /\ rv_out = "Idle"
    /\ lf_pc = <<>>
    /\ lf_addr = <<>>
    /\ lf_sessions = {}
    /\ lf_rec_rm = {}
    /\ lf_guard = <<>>
    /\ lf_token = <<>>
    /\ lf_wait = <<>>
    /\ lf_lock = <<>>
    /\ lf_peers = {}
    /\ lf_h = <<>>
    /\ lf_main = "running"
    /\ ss_cfg = <<>>
    /\ ss_peers = {}
    /\ ss_cleaner = FALSE
    /\ ss_cache = <<>>
    /\ ss_pc = "idle"
    /\ ss_tracked = FALSE
    /\ ss_pass = <<>>
    /\ ss_res = "None"
    /\ bw_delay_shutdown = TRUE
    /\ bw_pc = "running"
    /\ bw_snap = <<>>
    /\ gt_cfg = <<>>
    /\ gt_uptime = <<>>
    /\ gt_out = "idle"
    /\ sb_in = <<>>
    /\ sb_i = 0
    /\ sb_pc = "connect"
    /\ sb_guard = <<>>
    /\ sb_h = <<>>
    /\ am_reconnect = FALSE
    /\ am_pc = "query"
    /\ am_sessions = {}
    /\ am_peers = {}
    /\ am_unseen = <<>>
    /\ am_bridge = <<>>
    /\ am_record = <<>>
    /\ am_errors = {}
    /\ am_exit = <<>>
    /\ px_setup = <<>>
    /\ px_thread = <<>>
    /\ active_proxies = {}
    /\ pr_retry = 0
    /\ pr_p = <<>>
    /\ pr_pc = <<>>
    /\ pr_net = {}
    /\ pr_acc = <<>>
    /\ pr_res = <<>>
    /\ tm_cfg = <<>>
    /\ tm_self = <<>>
    /\ tm_out = <<>>
    /\ tm_pc = "new"
    /\ hs_cfg = <<>>
    /\ hs_hdr = <<>>
    /\ hs_run = <<>>

SpecDpi ==
    InitDpi /\ [][DpiNext]_vars

InitStun ==
    /\ wl_whitelist = <<>>
    /\ wl_addr = Ipv6(2, 0, 0)
    /\ wl_result = "idle"
    /\ p_pkts = <<>>
    /\ p_buf = <<>>
    /\ p_pos = 0
    /\ p_cuts = <<>>
    /\ p_last = ParseIdleMark
    /\ vi_value = {}
    /\ vi_buf = <<>>
    /\ vi_result = [kind |-> "Idle", value |-> {}, varint_len |-> 0]
    /\ d_pkts = <<>>
    /\ d_in = <<>>
    /\ d_reads = 0
    /\ d_fallback = FALSE
    /\ s_skip = 0
    /\ s_pf = FALSE
    /\ s_left = <<>>
    /\ s_seen = FALSE
    /\ k_segs = <<>>
    /\ k_open = FALSE
    /\ u_q = <<>>
    /\ r_skip = 0
    /\ r_backlog = <<>>
    /\ r_pf = FALSE
    /\ r_seen = FALSE
    /\ d_out = <<>>
    /\ h_late = FALSE
    /\ h_fb_calls = 0
    /\ st_cfg \in [yggdrasil_protocols : SeqsUpTo(PeeringProtocols, MaxProtocols), local : LocalChoices, stun_randomize : BOOLEAN]
    /\ st_servers = [i \in 1..Len(StunServers) |-> [server |-> StunServers[i], tcp_status |-> TRUE, udp_status |-> TRUE]]
    /\ st_external = <<>>
    /\ st_i = 0
    /\ st_pc = "pass"
    /\ st_watch = <<>>
    /\ st_asked = <<>>
    /\ st_seen = <<>>
    /\ tr_pc = <<>>
    /\ tr_inet = <<>>
    /\ tr_retry = <<>>
    /\ tr_guard = <<>>
    /\ tr_prober = <<>>
    /\ tr_result = <<>>
    /\ tr_map = <<>>
    /\ tr_spawned = {}
    /\ tr_h = <<>>
    /\ rv_pkt = <<>>
    /\ rv_path = "socket"
    /\ rv_send_ack = FALSE
    /\ rv_out = "Idle"
    /\ lf_pc = <<>>
    /\ lf_addr = <<>>
    /\ lf_sessions = {}
    /\ lf_rec_rm = {}
    /\ lf_guard = <<>>
    /\ lf_token = <<>>
    /\ lf_wait = <<>>
    /\ lf_lock = <<>>
    /\ lf_peers = {}
    /\ lf_h = <<>>
    /\ lf_main = "running"
    /\ ss_cfg = <<>>
    /\ ss_peers = {}
    /\ ss_cleaner = FALSE
    /\ ss_cache = <<>>
    /\ ss_pc = "idle"
    /\ ss_tracked = FALSE
    /\ ss_pass = <<>>
    /\ ss_res = "None"
    /\ bw_delay_shutdown = TRUE
    /\ bw_pc = "running"
    /\ bw_snap = <<>>
    /\ gt_cfg = <<>>
    /\ gt_uptime = <<>>
    /\ gt_out = "idle"
    /\ sb_in = <<>>
    /\ sb_i = 0
    /\ sb_pc = "connect"
    /\ sb_guard = <<>>
    /\ sb_h = <<>>
    /\ am_reconnect = FALSE
    /\ am_pc = "query"
    /\ am_sessions = {}
    /\ am_peers = {}
    /\ am_unseen = <<>>
    /\ am_bridge = <<>>
    /\ am_record = <<>>
    /\ am_errors = {}
    /\ am_exit = <<>>
    /\ px_setup = <<>>
    /\ px_thread = <<>>
    /\ active_proxies = {}
    /\ pr_retry = 0
    /\ pr_p = <<>>
    /\ pr_pc = <<>>
    /\ pr_net = {}
    /\ pr_acc = <<>>
    /\ pr_res = <<>>
    /\ tm_cfg = <<>>
    /\ tm_self = <<>>
    /\ tm_out = <<>>
    /\ tm_pc = "new"
    /\ hs_cfg = <<>>
    /\ hs_hdr = <<>>
    /\ hs_run = <<>>

SpecStun ==
    InitStun /\ [][StunNext]_vars

InitInet ==
    /\ wl_whitelist = <<>>
    /\ wl_addr = Ipv6(2, 0, 0)
    /\ wl_result = "idle"
    /\ p_pkts = <<>>
    /\ p_buf = <<>>
    /\ p_pos = 0
    /\ p_cuts = <<>>
    /\ p_last = ParseIdleMark
    /\ vi_value = {}
    /\ vi_buf = <<>>
    /\ vi_result = [kind |-> "Idle", value |-> {}, varint_len |-> 0]
    /\ d_pkts = <<>>
    /\ d_in = <<>>
    /\ d_reads = 0
    /\ d_fallback = FALSE
    /\ s_skip = 0
    /\ s_pf = FALSE
    /\ s_left = <<>>
    /\ s_seen = FALSE
    /\ k_segs = <<>>
    /\ k_open = FALSE
    /\ u_q = <<>>
    /\ r_skip = 0
    /\ r_backlog = <<>>
    /\ r_pf = FALSE
    /\ r_seen = FALSE
    /\ d_out = <<>>
    /\ h_late = FALSE
    /\ h_fb_calls = 0
    /\ st_cfg = [yggdrasil_protocols |-> <<>>, local |-> <<>>, stun_randomize |-> FALSE]
    /\ st_servers = <<>>
    /\ st_external = <<>>
    /\ st_i = 0
    /\ st_pc = "pass"
    /\ st_watch = <<>>
    /\ st_asked = <<>>
    /\ st_seen = <<>>
    /\ tr_pc = [t \in Callers |-> "idle"]
    /\ tr_inet = [t \in Callers |-> <<>>]
    /\ tr_retry = [t \in Callers |-> 1]
    /\ tr_guard = [t \in Callers |-> FALSE]
    /\ tr_prober = [t \in Callers |-> ProberStart(1)]
    /\ tr_result = [t \in Callers |-> <<>>]
    /\ tr_map = <<>>
    /\ tr_spawned = {}
    /\ tr_h = [t \in Callers |-> [inserted |-> FALSE, removed |-> FALSE, ack |-> FALSE, err |-> "None", sends |-> 0, after |-> 0]]
    /\ rv_pkt = <<>>
    /\ rv_path = "socket"
    /\ rv_send_ack = FALSE
    /\ rv_out = "Idle"
    /\ lf_pc = <<>>
    /\ lf_addr = <<>>
    /\ lf_sessions = {}
    /\ lf_rec_rm = {}
    /\ lf_guard = <<>>
    /\ lf_token = <<>>
    /\ lf_wait = <<>>
    /\ lf_lock = <<>>
    /\ lf_peers = {}
    /\ lf_h = <<>>
    /\ lf_main = "running"
    /\ ss_cfg = <<>>
    /\ ss_peers = {}
    /\ ss_cleaner = FALSE
    /\ ss_cache = <<>>
    /\ ss_pc = "idle"
    /\ ss_tracked = FALSE
    /\ ss_pass = <<>>
    /\ ss_res = "None"
    /\ bw_delay_shutdown = TRUE
    /\ bw_pc = "running"
    /\ bw_snap = <<>>
    /\ gt_cfg = <<>>
    /\ gt_uptime = <<>>
    /\ gt_out = "idle"
    /\ sb_in = <<>>
    /\ sb_i = 0
    /\ sb_pc = "connect"
    /\ sb_guard = <<>>
    /\ sb_h = <<>>
    /\ am_reconnect = FALSE
    /\ am_pc = "query"
    /\ am_sessions = {}
    /\ am_peers = {}
    /\ am_unseen = <<>>
    /\ am_bridge = <<>>
    /\ am_record = <<>>
    /\ am_errors = {}
    /\ am_exit = <<>>
    /\ px_setup = <<>>
    /\ px_thread = <<>>
    /\ active_proxies = {}
    /\ pr_retry = 0
    /\ pr_p = <<>>
    /\ pr_pc = <<>>
    /\ pr_net = {}
    /\ pr_acc = <<>>
    /\ pr_res = <<>>
    /\ tm_cfg = <<>>
    /\ tm_self = <<>>
    /\ tm_out = <<>>
    /\ tm_pc = "new"
    /\ hs_cfg = <<>>
    /\ hs_hdr = <<>>
    /\ hs_run = <<>>

SpecInet ==
    InitInet /\ [][InetNext]_vars

InitRecv ==
    /\ wl_whitelist = <<>>
    /\ wl_addr = Ipv6(2, 0, 0)
    /\ wl_result = "idle"
    /\ p_pkts = <<>>
    /\ p_buf = <<>>
    /\ p_pos = 0
    /\ p_cuts = <<>>
    /\ p_last = ParseIdleMark
    /\ vi_value = {}
    /\ vi_buf = <<>>
    /\ vi_result = [kind |-> "Idle", value |-> {}, varint_len |-> 0]
    /\ d_pkts = <<>>
    /\ d_in = <<>>
    /\ d_reads = 0
    /\ d_fallback = FALSE
    /\ s_skip = 0
    /\ s_pf = FALSE
    /\ s_left = <<>>
    /\ s_seen = FALSE
    /\ k_segs = <<>>
    /\ k_open = FALSE
    /\ u_q = <<>>
    /\ r_skip = 0
    /\ r_backlog = <<>>
    /\ r_pf = FALSE
    /\ r_seen = FALSE
    /\ d_out = <<>>
    /\ h_late = FALSE
    /\ h_fb_calls = 0
    /\ st_cfg = [yggdrasil_protocols |-> <<>>, local |-> <<>>, stun_randomize |-> FALSE]
    /\ st_servers = <<>>
    /\ st_external = <<>>
    /\ st_i = 0
    /\ st_pc = "pass"
    /\ st_watch = <<>>
    /\ st_asked = <<>>
    /\ st_seen = <<>>
    /\ tr_pc = <<>>
    /\ tr_inet = <<>>
    /\ tr_retry = <<>>
    /\ tr_guard = <<>>
    /\ tr_prober = <<>>
    /\ tr_result = <<>>
    /\ tr_map = <<>>
    /\ tr_spawned = {}
    /\ tr_h = <<>>
    /\ rv_pkt \in [form : {"jmpr", "stun", "other"}, method : {"BINDING", "ALLOCATE"},
                transaction_id : {<<>>, <<7>>, <<8>>, <<9>>}, integrity : {<<>>, <<"s7">>, <<"s8">>},
                class : MessageClasses]
    /\ rv_path \in {"socket", "listener"}
    /\ rv_send_ack \in BOOLEAN
    /\ rv_out = "Idle"
    /\ lf_pc = <<>>
    /\ lf_addr = <<>>
    /\ lf_sessions = {}
    /\ lf_rec_rm = {}
    /\ lf_guard = <<>>
    /\ lf_token = <<>>
    /\ lf_wait = <<>>
    /\ lf_lock = <<>>
    /\ lf_peers = {}
    /\ lf_h = <<>>
    /\ lf_main = "running"
    /\ ss_cfg = <<>>
    /\ ss_peers = {}
    /\ ss_cleaner = FALSE
    /\ ss_cache = <<>>
    /\ ss_pc = "idle"
    /\ ss_tracked = FALSE
    /\ ss_pass = <<>>
    /\ ss_res = "None"
    /\ bw_delay_shutdown = TRUE
    /\ bw_pc = "running"
    /\ bw_snap = <<>>
    /\ gt_cfg = <<>>
    /\ gt_uptime = <<>>
    /\ gt_out = "idle"
    /\ sb_in = <<>>
    /\ sb_i = 0
    /\ sb_pc = "connect"
    /\ sb_guard = <<>>
    /\ sb_h = <<>>
    /\ am_reconnect = FALSE
    /\ am_pc = "query"
    /\ am_sessions = {}
    /\ am_peers = {}
    /\ am_unseen = <<>>
    /\ am_bridge = <<>>
    /\ am_record = <<>>
    /\ am_errors = {}
    /\ am_exit = <<>>
    /\ px_setup = <<>>
    /\ px_thread = <<>>
    /\ active_proxies = {}
    /\ pr_retry = 0
    /\ pr_p = <<>>
    /\ pr_pc = <<>>
    /\ pr_net = {}
    /\ pr_acc = <<>>
    /\ pr_res = <<>>
    /\ tm_cfg = <<>>
    /\ tm_self = <<>>
    /\ tm_out = <<>>
    /\ tm_pc = "new"
    /\ hs_cfg = <<>>
    /\ hs_hdr = <<>>
    /\ hs_run = <<>>

SpecRecv ==
    InitRecv /\ [][RecvPacket]_vars

Init ==
    /\ wl_whitelist = <<>>
    /\ wl_addr = Ipv6(2, 0, 0)
    /\ wl_result = "idle"
    /\ p_pkts = <<>>
    /\ p_buf = <<>>
    /\ p_pos = 0
    /\ p_cuts = <<>>
    /\ p_last = ParseIdleMark
    /\ vi_value = {}
    /\ vi_buf = <<>>
    /\ vi_result = [kind |-> "Idle", value |-> {}, varint_len |-> 0]
    /\ d_pkts = <<>>
    /\ d_in = <<>>
    /\ d_reads = 0
    /\ d_fallback = FALSE
    /\ s_skip = 0
    /\ s_pf = FALSE
    /\ s_left = <<>>
    /\ s_seen = FALSE
    /\ k_segs = <<>>
    /\ k_open = FALSE
    /\ u_q = <<>>
    /\ r_skip = 0
    /\ r_backlog = <<>>
    /\ r_pf = FALSE
    /\ r_seen = FALSE
    /\ d_out = <<>>
    /\ h_late = FALSE
    /\ h_fb_calls = 0
    /\ st_cfg = [yggdrasil_protocols |-> <<>>, local |-> <<>>, stun_randomize |-> FALSE]
    /\ st_servers = <<>>
    /\ st_external = <<>>
    /\ st_i = 0
    /\ st_pc = "pass"
    /\ st_watch = <<>>
    /\ st_asked = <<>>
    /\ st_seen = <<>>
    /\ tr_pc = <<>>
    /\ tr_inet = <<>>
    /\ tr_retry = <<>>
    /\ tr_guard = <<>>
    /\ tr_prober = <<>>
    /\ tr_result = <<>>
    /\ tr_map = <<>>
    /\ tr_spawned = {}
    /\ tr_h = <<>>
    /\ rv_pkt = <<>>
    /\ rv_path = "socket"
    /\ rv_send_ack = FALSE
    /\ rv_out = "Idle"
    /\ lf_pc = [t \in Tasks |-> "free"]
    /\ lf_addr = [t \in Tasks |-> "none"]
    /\ lf_sessions = {}
    /\ lf_rec_rm = {}
    /\ lf_guard = [t \in Tasks |-> "none"]
    /\ lf_token = [t \in Tasks |-> FALSE]
    /\ lf_wait = [t \in Tasks |-> "none"]
    /\ lf_lock = <<>>
    /\ lf_peers = {}
    /\ lf_h = [added |-> {}, removed |-> {}, refused |-> {}]
    /\ lf_main = "running"
    /\ ss_cfg = <<>>
    /\ ss_peers = {}
    /\ ss_cleaner = FALSE
    /\ ss_cache = <<>>
    /\ ss_pc = "idle"
    /\ ss_tracked = FALSE
    /\ ss_pass = <<>>
    /\ ss_res = "None"
    /\ bw_delay_shutdown = TRUE
    /\ bw_pc = "running"
    /\ bw_snap = <<>>
    /\ gt_cfg = <<>>
    /\ gt_uptime = <<>>
    /\ gt_out = "idle"
    /\ sb_in = <<>>
    /\ sb_i = 0
    /\ sb_pc = "connect"
    /\ sb_guard = <<>>
    /\ sb_h = <<>>
    /\ am_reconnect = FALSE
    /\ am_pc = "query"
    /\ am_sessions = {}
    /\ am_peers = {}
    /\ am_unseen = <<>>
    /\ am_bridge = <<>>
    /\ am_record = <<>>
    /\ am_errors = {}
    /\ am_exit = <<>>
    /\ px_setup = <<>>
    /\ px_thread = <<>>
    /\ active_proxies = {}
    /\ pr_retry = 0
    /\ pr_p = <<>>
    /\ pr_pc = <<>>
    /\ pr_net = {}
    /\ pr_acc = <<>>
    /\ pr_res = <<>>
    /\ tm_cfg = <<>>
    /\ tm_self = <<>>
    /\ tm_out = <<>>
    /\ tm_pc = "new"
    /\ hs_cfg = <<>>
    /\ hs_hdr = <<>>
    /\ hs_run = <<>>

Spec ==
    Init /\ [][Next]_vars

SpecShutdown ==
    Init /\ [][Next]_vars /\ WF_vars(MainExit)

InitSession ==
    /\ wl_whitelist = <<>>
    /\ wl_addr = Ipv6(2, 0, 0)
    /\ wl_result = "idle"
    /\ p_pkts = <<>>
    /\ p_buf = <<>>
    /\ p_pos = 0
    /\ p_cuts = <<>>
    /\ p_last = ParseIdleMark
    /\ vi_value = {}
    /\ vi_buf = <<>>
    /\ vi_result = [kind |-> "Idle", value |-> {}, varint_len |-> 0]
    /\ d_pkts = <<>>
    /\ d_in = <<>>
    /\ d_reads = 0
    /\ d_fallback = FALSE
    /\ s_skip = 0
    /\ s_pf = FALSE
    /\ s_left = <<>>
    /\ s_seen = FALSE
    /\ k_segs = <<>>
    /\ k_open = FALSE
    /\ u_q = <<>>
    /\ r_skip = 0
    /\ r_backlog = <<>>
    /\ r_pf = FALSE
    /\ r_seen = FALSE
    /\ d_out = <<>>
    /\ h_late = FALSE
    /\ h_fb_calls = 0
    /\ st_cfg = [yggdrasil_protocols |-> <<>>, local |-> <<>>, stun_randomize |-> FALSE]
    /\ st_servers = <<>>
    /\ st_external = <<>>
    /\ st_i = 0
    /\ st_pc = "pass"
    /\ st_watch = <<>>
    /\ st_asked = <<>>
    /\ st_seen = <<>>
    /\ tr_pc = <<>>
    /\ tr_inet = <<>>
    /\ tr_retry = <<>>
    /\ tr_guard = <<>>
    /\ tr_prober = <<>>
    /\ tr_result = <<>>
    /\ tr_map = <<>>
    /\ tr_spawned = {}
    /\ tr_h = <<>>
    /\ rv_pkt = <<>>
    /\ rv_path = "socket"
    /\ rv_send_ack = FALSE
    /\ rv_out = "Idle"
    /\ lf_pc = <<>>
    /\ lf_addr = <<>>
    /\ lf_sessions = {}
    /\ lf_rec_rm = {}
    /\ lf_guard = <<>>
    /\ lf_token = <<>>
    /\ lf_wait = <<>>
    /\ lf_lock = <<>>
    /\ lf_peers = {}
    /\ lf_h = <<>>
    /\ lf_main = "running"
    /\ ss_cfg \in [whitelist : {<<>>, <<{Ipv6(3, 0, 0)}>>, <<{Ipv6(2, 0, 1)}>>},
                avoid_redundant_peering : BOOLEAN, only_peers_advertising_jumper : BOOLEAN,
                failed_yggdrasil_traversal_limit : {<<>>} \cup {<<n>> : n \in 1..(MaxFailed - 1)}]
    /\ ss_peers \in {s \in SUBSET [address : {<<>>, <<Ipv6(2, 0, 0)>>, <<Ipv6(2, 0, 1)>>},
                             remote : {<<>>, <<"tcp://[::1]:1">>}, up : BOOLEAN] : Cardinality(s) <= MaxPeers}
    /\ ss_cleaner = ss_cfg.only_peers_advertising_jumper
    /\ ss_cache = <<>>
    /\ ss_pc = "idle"
    /\ ss_tracked = FALSE
    /\ ss_pass = <<>>
    /\ ss_res = "None"
    /\ bw_delay_shutdown = TRUE
    /\ bw_pc = "running"
    /\ bw_snap = <<>>
    /\ gt_cfg = <<>>
    /\ gt_uptime = <<>>
    /\ gt_out = "idle"
    /\ sb_in = <<>>
    /\ sb_i = 0
    /\ sb_pc = "connect"
    /\ sb_guard = <<>>
    /\ sb_h = <<>>
    /\ am_reconnect = FALSE
    /\ am_pc = "query"
    /\ am_sessions = {}
    /\ am_peers = {}
    /\ am_unseen = <<>>
    /\ am_bridge = <<>>
    /\ am_record = <<>>
    /\ am_errors = {}
    /\ am_exit = <<>>
    /\ px_setup = <<>>
    /\ px_thread = <<>>
    /\ active_proxies = {}
    /\ pr_retry = 0
    /\ pr_p = <<>>
    /\ pr_pc = <<>>
    /\ pr_net = {}
    /\ pr_acc = <<>>
    /\ pr_res = <<>>
    /\ tm_cfg = <<>>
    /\ tm_self = <<>>
    /\ tm_out = <<>>
    /\ tm_pc = "new"
    /\ hs_cfg = <<>>
    /\ hs_hdr = <<>>
    /\ hs_run = <<>>

SpecSession ==
    InitSession /\ [][SessNext]_vars /\ WF_vars(SessionTaskExit)

InitBridgeWatch ==
    /\ wl_whitelist = <<>>
    /\ wl_addr = Ipv6(2, 0, 0)
    /\ wl_result = "idle"
    /\ p_pkts = <<>>
    /\ p_buf = <<>>
    /\ p_pos = 0
    /\ p_cuts = <<>>
    /\ p_last = ParseIdleMark
    /\ vi_value = {}
    /\ vi_buf = <<>>
    /\ vi_result = [kind |-> "Idle", value |-> {}, varint_len |-> 0]
    /\ d_pkts = <<>>
    /\ d_in = <<>>
    /\ d_reads = 0
    /\ d_fallback = FALSE
    /\ s_skip = 0
    /\ s_pf = FALSE
    /\ s_left = <<>>
    /\ s_seen = FALSE
    /\ k_segs = <<>>
    /\ k_open = FALSE
    /\ u_q = <<>>
    /\ r_skip = 0
    /\ r_backlog = <<>>
    /\ r_pf = FALSE
    /\ r_seen = FALSE
    /\ d_out = <<>>
    /\ h_late = FALSE
    /\ h_fb_calls = 0
    /\ st_cfg = [yggdrasil_protocols |-> <<>>, local |-> <<>>, stun_randomize |-> FALSE]
    /\ st_servers = <<>>
    /\ st_external = <<>>
    /\ st_i = 0
    /\ st_pc = "pass"
    /\ st_watch = <<>>
    /\ st_asked = <<>>
    /\ st_seen = <<>>
    /\ tr_pc = <<>>
    /\ tr_inet = <<>>
    /\ tr_retry = <<>>
    /\ tr_guard = <<>>
    /\ tr_prober = <<>>
    /\ tr_result = <<>>
    /\ tr_map = <<>>
    /\ tr_spawned = {}
    /\ tr_h = <<>>
    /\ rv_pkt = <<>>
    /\ rv_path = "socket"
    /\ rv_send_ack = FALSE
    /\ rv_out = "Idle"
    /\ lf_pc = <<>>
    /\ lf_addr = <<>>
    /\ lf_sessions = {}
    /\ lf_rec_rm = {}
    /\ lf_guard = <<>>
    /\ lf_token = <<>>
    /\ lf_wait = <<>>
    /\ lf_lock = <<>>
    /\ lf_peers = {}
    /\ lf_h = <<>>
    /\ lf_main = "running"
    /\ ss_cfg = <<>>
    /\ ss_peers = {}
    /\ ss_cleaner = FALSE
    /\ ss_cache = <<>>
    /\ ss_pc = "idle"
    /\ ss_tracked = FALSE
    /\ ss_pass = <<>>
    /\ ss_res = "None"
    /\ bw_delay_shutdown = TRUE
    /\ bw_pc = "running"
    /\ bw_snap = <<>>
    /\ gt_cfg = <<>>
    /\ gt_uptime = <<>>
    /\ gt_out = "idle"
    /\ sb_in = <<>>
    /\ sb_i = 0
    /\ sb_pc = "connect"
    /\ sb_guard = <<>>
    /\ sb_h = <<>>
    /\ am_reconnect = FALSE
    /\ am_pc = "query"
    /\ am_sessions = {}
    /\ am_peers = {}
    /\ am_unseen = <<>>
    /\ am_bridge = <<>>
    /\ am_record = <<>>
    /\ am_errors = {}
    /\ am_exit = <<>>
    /\ px_setup = <<>>
    /\ px_thread = <<>>
    /\ active_proxies = {}
    /\ pr_retry = 0
    /\ pr_p = <<>>
    /\ pr_pc = <<>>
    /\ pr_net = {}
    /\ pr_acc = <<>>
    /\ pr_res = <<>>
    /\ tm_cfg = <<>>
    /\ tm_self = <<>>
    /\ tm_out = <<>>
    /\ tm_pc = "new"
    /\ hs_cfg = <<>>
    /\ hs_hdr = <<>>
    /\ hs_run = <<>>

SpecBridgeWatch ==
    InitBridgeWatch /\ [][BwNext]_vars

InitGate ==
    /\ wl_whitelist = <<>>
    /\ wl_addr = Ipv6(2, 0, 0)
    /\ wl_result = "idle"
    /\ p_pkts = <<>>
    /\ p_buf = <<>>
    /\ p_pos = 0
    /\ p_cuts = <<>>
    /\ p_last = ParseIdleMark
    /\ vi_value = {}
    /\ vi_buf = <<>>
    /\ vi_result = [kind |-> "Idle", value |-> {}, varint_len |-> 0]
    /\ d_pkts = <<>>
    /\ d_in = <<>>
    /\ d_reads = 0
    /\ d_fallback = FALSE
    /\ s_skip = 0
    /\ s_pf = FALSE
    /\ s_left = <<>>
    /\ s_seen = FALSE
    /\ k_segs = <<>>
    /\ k_open = FALSE
    /\ u_q = <<>>
    /\ r_skip = 0
    /\ r_backlog = <<>>
    /\ r_pf = FALSE
    /\ r_seen = FALSE
    /\ d_out = <<>>
    /\ h_late = FALSE
    /\ h_fb_calls = 0
    /\ st_cfg = [yggdrasil_protocols |-> <<>>, local |-> <<>>, stun_randomize |-> FALSE]
    /\ st_servers = <<>>
    /\ st_external = <<>>
    /\ st_i = 0
    /\ st_pc = "pass"
    /\ st_watch = <<>>
    /\ st_asked = <<>>
    /\ st_seen = <<>>
    /\ tr_pc = <<>>
    /\ tr_inet = <<>>
    /\ tr_retry = <<>>
    /\ tr_guard = <<>>
    /\ tr_prober = <<>>
    /\ tr_result = <<>>
    /\ tr_map = <<>>
    /\ tr_spawned = {}
    /\ tr_h = <<>>
    /\ rv_pkt = <<>>
    /\ rv_path = "socket"
    /\ rv_send_ack = FALSE
    /\ rv_out = "Idle"
    /\ lf_pc = <<>>
    /\ lf_addr = <<>>
    /\ lf_sessions = {}
    /\ lf_rec_rm = {}
    /\ lf_guard = <<>>
    /\ lf_token = <<>>
    /\ lf_wait = <<>>
    /\ lf_lock = <<>>
    /\ lf_peers = {}
    /\ lf_h = <<>>
    /\ lf_main = "running"
    /\ ss_cfg = <<>>
    /\ ss_peers = {}
    /\ ss_cleaner = FALSE
    /\ ss_cache = <<>>
    /\ ss_pc = "idle"
    /\ ss_tracked = FALSE
    /\ ss_pass = <<>>
    /\ ss_res = "None"
    /\ bw_delay_shutdown = TRUE
    /\ bw_pc = "running"
    /\ bw_snap = <<>>
    /\ gt_cfg \in [inactivity_delay_period : 1..MaxPeriod, inactivity_delay : 0..(MaxPeriod + 1)]
    /\ gt_uptime \in {<<>>} \cup {<<u>> : u \in 0..MaxUptime}
    /\ gt_out = "idle"
    /\ sb_in = <<>>
    /\ sb_i = 0
    /\ sb_pc = "connect"
    /\ sb_guard = <<>>
    /\ sb_h = <<>>
    /\ am_reconnect = FALSE
    /\ am_pc = "query"
    /\ am_sessions = {}
    /\ am_peers = {}
    /\ am_unseen = <<>>
    /\ am_bridge = <<>>
    /\ am_record = <<>>
    /\ am_errors = {}
    /\ am_exit = <<>>
    /\ px_setup = <<>>
    /\ px_thread = <<>>
    /\ active_proxies = {}
    /\ pr_retry = 0
    /\ pr_p = <<>>
    /\ pr_pc = <<>>
    /\ pr_net = {}
    /\ pr_acc = <<>>
    /\ pr_res = <<>>
    /\ tm_cfg = <<>>
    /\ tm_self = <<>>
    /\ tm_out = <<>>
    /\ tm_pc = "new"
    /\ hs_cfg = <<>>
    /\ hs_hdr = <<>>
    /\ hs_run = <<>>

SpecGate ==
    InitGate /\ [][ConnectSessionGate]_vars

InitStartBridge ==
    /\ wl_whitelist = <<>>
    /\ wl_addr = Ipv6(2, 0, 0)
    /\ wl_result = "idle"
    /\ p_pkts = <<>>
    /\ p_buf = <<>>
    /\ p_pos = 0
    /\ p_cuts = <<>>
    /\ p_last = ParseIdleMark
    /\ vi_value = {}
    /\ vi_buf = <<>>
    /\ vi_result = [kind |-> "Idle", value |-> {}, varint_len |-> 0]
    /\ d_pkts = <<>>
    /\ d_in = <<>>
    /\ d_reads = 0
    /\ d_fallback = FALSE
    /\ s_skip = 0
    /\ s_pf = FALSE
    /\ s_left = <<>>
    /\ s_seen = FALSE
    /\ k_segs = <<>>
    /\ k_open = FALSE
    /\ u_q = <<>>
    /\ r_skip = 0
    /\ r_backlog = <<>>
    /\ r_pf = FALSE
    /\ r_seen = FALSE
    /\ d_out = <<>>
    /\ h_late = FALSE
    /\ h_fb_calls = 0
    /\ st_cfg = [yggdrasil_protocols |-> <<>>, local |-> <<>>, stun_randomize |-> FALSE]
    /\ st_servers = <<>>
    /\ st_external = <<>>
    /\ st_i = 0
    /\ st_pc = "pass"
    /\ st_watch = <<>>
    /\ st_asked = <<>>
    /\ st_seen = <<>>
    /\ tr_pc = <<>>
    /\ tr_inet = <<>>
    /\ tr_retry = <<>>
    /\ tr_guard = <<>>
    /\ tr_prober = <<>>
    /\ tr_result = <<>>
    /\ tr_map = <<>>
    /\ tr_spawned = {}
    /\ tr_h = <<>>
    /\ rv_pkt = <<>>
    /\ rv_path = "socket"
    /\ rv_send_ack = FALSE
    /\ rv_out = "Idle"
    /\ lf_pc = <<>>
    /\ lf_addr = <<>>
    /\ lf_sessions = {}
    /\ lf_rec_rm = {}
    /\ lf_guard = <<>>
    /\ lf_token = <<>>
    /\ lf_wait = <<>>
    /\ lf_lock = <<>>
    /\ lf_peers = {}
    /\ lf_h = <<>>
    /\ lf_main = "running"
    /\ ss_cfg = <<>>
    /\ ss_peers = {}
    /\ ss_cleaner = FALSE
    /\ ss_cache = <<>>
    /\ ss_pc = "idle"
    /\ ss_tracked = FALSE
    /\ ss_pass = <<>>
    /\ ss_res = "None"
    /\ bw_delay_shutdown = TRUE
    /\ bw_pc = "running"
    /\ bw_snap = <<>>
    /\ gt_cfg = <<>>
    /\ gt_uptime = <<>>
    /\ gt_out = "idle"
    /\ sb_in \in {c \in [protocol : {"tcp", "tls", "quic"}, connection_mode : {"Any", "AsClient", "AsServer"},
                       yggdrasil_listen : SeqsUpTo({"tcp", "tls", "quic", "unix"}, MaxListen),
                       server_password : {<<>>, <<"0f0e">>}] :
                /\ (c.connection_mode = "Any") <=> (c.protocol = "tcp")
                /\ c.server_password # <<>> => c.connection_mode = "Any"}
    /\ sb_i = 0
    /\ sb_pc = "connect"
    /\ sb_guard = <<>>
    /\ sb_h = [dialled |-> <<>>, add_peer |-> <<>>, remove_peer |-> <<>>]
    /\ am_reconnect = FALSE
    /\ am_pc = "query"
    /\ am_sessions = {}
    /\ am_peers = {}
    /\ am_unseen = <<>>
    /\ am_bridge = <<>>
    /\ am_record = <<>>
    /\ am_errors = {}
    /\ am_exit = <<>>
    /\ px_setup = <<>>
    /\ px_thread = <<>>
    /\ active_proxies = {}
    /\ pr_retry = 0
    /\ pr_p = <<>>
    /\ pr_pc = <<>>
    /\ pr_net = {}
    /\ pr_acc = <<>>
    /\ pr_res = <<>>
    /\ tm_cfg = <<>>
    /\ tm_self = <<>>
    /\ tm_out = <<>>
    /\ tm_pc = "new"
    /\ hs_cfg = <<>>
    /\ hs_hdr = <<>>
    /\ hs_run = <<>>

SpecStartBridge ==
    InitStartBridge /\ [][StartBridgeConnect \/ StartBridgeFallback \/ StartBridgeReturn]_vars

InitAdminMonitor ==
    /\ wl_whitelist = <<>>
    /\ wl_addr = Ipv6(2, 0, 0)
    /\ wl_result = "idle"
    /\ p_pkts = <<>>
    /\ p_buf = <<>>
    /\ p_pos = 0
    /\ p_cuts = <<>>
    /\ p_last = ParseIdleMark
    /\ vi_value = {}
    /\ vi_buf = <<>>
    /\ vi_result = [kind |-> "Idle", value |-> {}, varint_len |-> 0]
    /\ d_pkts = <<>>
    /\ d_in = <<>>
    /\ d_reads = 0
    /\ d_fallback = FALSE
    /\ s_skip = 0
    /\ s_pf = FALSE
    /\ s_left = <<>>
    /\ s_seen = FALSE
    /\ k_segs = <<>>
    /\ k_open = FALSE
    /\ u_q = <<>>
    /\ r_skip = 0
    /\ r_backlog = <<>>
    /\ r_pf = FALSE
    /\ r_seen = FALSE
    /\ d_out = <<>>
    /\ h_late = FALSE
    /\ h_fb_calls = 0
    /\ st_cfg = [yggdrasil_protocols |-> <<>>, local |-> <<>>, stun_randomize |-> FALSE]
    /\ st_servers = <<>>
    /\ st_external = <<>>
    /\ st_i = 0
    /\ st_pc = "pass"
    /\ st_watch = <<>>
    /\ st_asked = <<>>
    /\ st_seen = <<>>
    /\ tr_pc = <<>>
    /\ tr_inet = <<>>
    /\ tr_retry = <<>>
    /\ tr_guard = <<>>
    /\ tr_prober = <<>>
    /\ tr_result = <<>>
    /\ tr_map = <<>>
    /\ tr_spawned = {}
    /\ tr_h = <<>>
    /\ rv_pkt = <<>>
    /\ rv_path = "socket"
    /\ rv_send_ack = FALSE
    /\ rv_out = "Idle"
    /\ lf_pc = <<>>
    /\ lf_addr = <<>>
    /\ lf_sessions = {}
    /\ lf_rec_rm = {}
    /\ lf_guard = <<>>
    /\ lf_token = <<>>
    /\ lf_wait = <<>>
    /\ lf_lock = <<>>
    /\ lf_peers = {}
    /\ lf_h = <<>>
    /\ lf_main = "running"
    /\ ss_cfg = <<>>
    /\ ss_peers = {}
    /\ ss_cleaner = FALSE
    /\ ss_cache = <<>>
    /\ ss_pc = "idle"
    /\ ss_tracked = FALSE
    /\ ss_pass = <<>>
    /\ ss_res = "None"
    /\ bw_delay_shutdown = TRUE
    /\ bw_pc = "running"
    /\ bw_snap = <<>>
    /\ gt_cfg = <<>>
    /\ gt_uptime = <<>>
    /\ gt_out = "idle"
    /\ sb_in = <<>>
    /\ sb_i = 0
    /\ sb_pc = "connect"
    /\ sb_guard = <<>>
    /\ sb_h = <<>>
    /\ am_reconnect \in BOOLEAN
    /\ am_pc = "query"
    /\ am_sessions = {}
    /\ am_peers = {}
    /\ am_unseen = [b \in 1..MaxSessions |-> FALSE]
    /\ am_bridge = [b \in 1..MaxSessions |-> "none"]
    /\ am_record = [b \in 1..MaxSessions |-> FALSE]
    /\ am_errors = {}
    /\ am_exit = <<>>
    /\ px_setup = <<>>
    /\ px_thread = <<>>
    /\ active_proxies = {}
    /\ pr_retry = 0
    /\ pr_p = <<>>
    /\ pr_pc = <<>>
    /\ pr_net = {}
    /\ pr_acc = <<>>
    /\ pr_res = <<>>
    /\ tm_cfg = <<>>
    /\ tm_self = <<>>
    /\ tm_out = <<>>
    /\ tm_pc = "new"
    /\ hs_cfg = <<>>
    /\ hs_hdr = <<>>
    /\ hs_run = <<>>

SpecAdminMonitor ==
    InitAdminMonitor /\ [][MonitorQuery \/ MonitorReconnect \/ MonitorEndsMain \/ (\E b \in 1..MaxSessions : AdminBridgeStart(b) \/ AdminBridgeSessionsChanged(b) \/ AdminBridgeRecordRemoved(b))]_vars /\ (\A b \in 1..MaxSessions : WF_vars(AdminBridgeSessionsChanged(b)) /\ WF_vars(AdminBridgeRecordRemoved(b)))

InitProxies ==
    /\ wl_whitelist = <<>>
    /\ wl_addr = Ipv6(2, 0, 0)
    /\ wl_result = "idle"
    /\ p_pkts = <<>>
    /\ p_buf = <<>>
    /\ p_pos = 0
    /\ p_cuts = <<>>
    /\ p_last = ParseIdleMark
    /\ vi_value = {}
    /\ vi_buf = <<>>
    /\ vi_result = [kind |-> "Idle", value |-> {}, varint_len |-> 0]
    /\ d_pkts = <<>>
    /\ d_in = <<>>
    /\ d_reads = 0
    /\ d_fallback = FALSE
    /\ s_skip = 0
    /\ s_pf = FALSE
    /\ s_left = <<>>
    /\ s_seen = FALSE
    /\ k_segs = <<>>
    /\ k_open = FALSE
    /\ u_q = <<>>
    /\ r_skip = 0
    /\ r_backlog = <<>>
    /\ r_pf = FALSE
    /\ r_seen = FALSE
    /\ d_out = <<>>
    /\ h_late = FALSE
    /\ h_fb_calls = 0
    /\ st_cfg = [yggdrasil_protocols |-> <<>>, local |-> <<>>, stun_randomize |-> FALSE]
    /\ st_servers = <<>>
    /\ st_external = <<>>
    /\ st_i = 0
    /\ st_pc = "pass"
    /\ st_watch = <<>>
    /\ st_asked = <<>>
    /\ st_seen = <<>>
    /\ tr_pc = <<>>
    /\ tr_inet = <<>>
    /\ tr_retry = <<>>
    /\ tr_guard = <<>>
    /\ tr_prober = <<>>
    /\ tr_result = <<>>
    /\ tr_map = <<>>
    /\ tr_spawned = {}
    /\ tr_h = <<>>
    /\ rv_pkt = <<>>
    /\ rv_path = "socket"
    /\ rv_send_ack = FALSE
    /\ rv_out = "Idle"
    /\ lf_pc = <<>>
    /\ lf_addr = <<>>
    /\ lf_sessions = {}
    /\ lf_rec_rm = {}
    /\ lf_guard = <<>>
    /\ lf_token = <<>>
    /\ lf_wait = <<>>
    /\ lf_lock = <<>>
    /\ lf_peers = {}
    /\ lf_h = <<>>
    /\ lf_main = "running"
    /\ ss_cfg = <<>>
    /\ ss_peers = {}
    /\ ss_cleaner = FALSE
    /\ ss_cache = <<>>
    /\ ss_pc = "idle"
    /\ ss_tracked = FALSE
    /\ ss_pass = <<>>
    /\ ss_res = "None"
    /\ bw_delay_shutdown = TRUE
    /\ bw_pc = "running"
    /\ bw_snap = <<>>
    /\ gt_cfg = <<>>
    /\ gt_uptime = <<>>
    /\ gt_out = "idle"
    /\ sb_in = <<>>
    /\ sb_i = 0
    /\ sb_pc = "connect"
    /\ sb_guard = <<>>
    /\ sb_h = <<>>
    /\ am_reconnect = FALSE
    /\ am_pc = "query"
    /\ am_sessions = {}
    /\ am_peers = {}
    /\ am_unseen = <<>>
    /\ am_bridge = <<>>
    /\ am_record = <<>>
    /\ am_errors = {}
    /\ am_exit = <<>>
    /\ px_setup = [t \in 1..MaxProxies |-> "spawn"]
    /\ px_thread = [t \in 1..MaxProxies |-> "unspawned"]
    /\ active_proxies = {}
    /\ pr_retry = 0
    /\ pr_p = <<>>
    /\ pr_pc = <<>>
    /\ pr_net = {}
    /\ pr_acc = <<>>
    /\ pr_res = <<>>
    /\ tm_cfg = <<>>
    /\ tm_self = <<>>
    /\ tm_out = <<>>
    /\ tm_pc = "new"
    /\ hs_cfg = <<>>
    /\ hs_hdr = <<>>
    /\ hs_run = <<>>

SpecProxies ==
    InitProxies /\ [][\E t \in 1..MaxProxies : SetupProxy(t) \/ ProxyThreadExit(t)]_vars

InitTraversePair ==
    /\ wl_whitelist = <<>>
    /\ wl_addr = Ipv6(2, 0, 0)
    /\ wl_result = "idle"
    /\ p_pkts = <<>>
    /\ p_buf = <<>>
    /\ p_pos = 0
    /\ p_cuts = <<>>
    /\ p_last = ParseIdleMark
    /\ vi_value = {}
    /\ vi_buf = <<>>
    /\ vi_result = [kind |-> "Idle", value |-> {}, varint_len |-> 0]
    /\ d_pkts = <<>>
    /\ d_in = <<>>
    /\ d_reads = 0
    /\ d_fallback = FALSE
    /\ s_skip = 0
    /\ s_pf = FALSE
    /\ s_left = <<>>
    /\ s_seen = FALSE
    /\ k_segs = <<>>
    /\ k_open = FALSE
    /\ u_q = <<>>
    /\ r_skip = 0
    /\ r_backlog = <<>>
    /\ r_pf = FALSE
    /\ r_seen = FALSE
    /\ d_out = <<>>
    /\ h_late = FALSE
    /\ h_fb_calls = 0
    /\ st_cfg = [yggdrasil_protocols |-> <<>>, local |-> <<>>, stun_randomize |-> FALSE]
    /\ st_servers = <<>>
    /\ st_external = <<>>
    /\ st_i = 0
    /\ st_pc = "pass"
    /\ st_watch = <<>>
    /\ st_asked = <<>>
    /\ st_seen = <<>>
    /\ tr_pc = <<>>
    /\ tr_inet = <<>>
    /\ tr_retry = <<>>
    /\ tr_guard = <<>>
    /\ tr_prober = <<>>
    /\ tr_result = <<>>
    /\ tr_map = <<>>
    /\ tr_spawned = {}
    /\ tr_h = <<>>
    /\ rv_pkt = <<>>
    /\ rv_path = "socket"
    /\ rv_send_ack = FALSE
    /\ rv_out = "Idle"
    /\ lf_pc = <<>>
    /\ lf_addr = <<>>
    /\ lf_sessions = {}
    /\ lf_rec_rm = {}
    /\ lf_guard = <<>>
    /\ lf_token = <<>>
    /\ lf_wait = <<>>
    /\ lf_lock = <<>>
    /\ lf_peers = {}
    /\ lf_h = <<>>
    /\ lf_main = "running"
    /\ ss_cfg = <<>>
    /\ ss_peers = {}
    /\ ss_cleaner = FALSE
    /\ ss_cache = <<>>
    /\ ss_pc = "idle"
    /\ ss_tracked = FALSE
    /\ ss_pass = <<>>
    /\ ss_res = "None"
    /\ bw_delay_shutdown = TRUE
    /\ bw_pc = "running"
    /\ bw_snap = <<>>
    /\ gt_cfg = <<>>
    /\ gt_uptime = <<>>
    /\ gt_out = "idle"
    /\ sb_in = <<>>
    /\ sb_i = 0
    /\ sb_pc = "connect"
    /\ sb_guard = <<>>
    /\ sb_h = <<>>
    /\ am_reconnect = FALSE
    /\ am_pc = "query"
    /\ am_sessions = {}
    /\ am_peers = {}
    /\ am_unseen = <<>>
    /\ am_bridge = <<>>
    /\ am_record = <<>>
    /\ am_errors = {}
    /\ am_exit = <<>>
    /\ px_setup = <<>>
    /\ px_thread = <<>>
    /\ active_proxies = {}
    /\ pr_retry \in 1..(MaxRetry + 1)
    /\ pr_p = [s \in Callers |-> ProberStart(pr_retry)]
    /\ pr_pc = [s \in Callers |-> "send"]
    /\ pr_net = {}
    /\ pr_acc = [s \in Callers |-> {}]
    /\ pr_res = [s \in Callers |-> <<>>]
    /\ tm_cfg = <<>>
    /\ tm_self = <<>>
    /\ tm_out = <<>>
    /\ tm_pc = "new"
    /\ hs_cfg = <<>>
    /\ hs_hdr = <<>>
    /\ hs_run = <<>>

SpecTraversePair ==
    InitTraversePair /\ [][\E s \in Callers : TraversePair(s)]_vars

InitTimeout ==
    /\ wl_whitelist = <<>>
    /\ wl_addr = Ipv6(2, 0, 0)
    /\ wl_result = "idle"
    /\ p_pkts = <<>>
    /\ p_buf = <<>>
    /\ p_pos = 0
    /\ p_cuts = <<>>
    /\ p_last = ParseIdleMark
    /\ vi_value = {}
    /\ vi_buf = <<>>
    /\ vi_result = [kind |-> "Idle", value |-> {}, varint_len |-> 0]
    /\ d_pkts = <<>>
    /\ d_in = <<>>
    /\ d_reads = 0
    /\ d_fallback = FALSE
    /\ s_skip = 0
    /\ s_pf = FALSE
    /\ s_left = <<>>
    /\ s_seen = FALSE
    /\ k_segs = <<>>
    /\ k_open = FALSE
    /\ u_q = <<>>
    /\ r_skip = 0
    /\ r_backlog = <<>>
    /\ r_pf = FALSE
    /\ r_seen = FALSE
    /\ d_out = <<>>
    /\ h_late = FALSE
    /\ h_fb_calls = 0
    /\ st_cfg = [yggdrasil_protocols |-> <<>>, local |-> <<>>, stun_randomize |-> FALSE]
    /\ st_servers = <<>>
    /\ st_external = <<>>
    /\ st_i = 0
    /\ st_pc = "pass"
    /\ st_watch = <<>>
    /\ st_asked = <<>>
    /\ st_seen = <<>>
    /\ tr_pc = <<>>
    /\ tr_inet = <<>>
    /\ tr_retry = <<>>
    /\ tr_guard = <<>>
    /\ tr_prober = <<>>
    /\ tr_result = <<>>
    /\ tr_map = <<>>
    /\ tr_spawned = {}
    /\ tr_h = <<>>
    /\ rv_pkt = <<>>
    /\ rv_path = "socket"
    /\ rv_send_ack = FALSE
    /\ rv_out = "Idle"
    /\ lf_pc = <<>>
    /\ lf_addr = <<>>
    /\ lf_sessions = {}
    /\ lf_rec_rm = {}
    /\ lf_guard = <<>>
    /\ lf_token = <<>>
    /\ lf_wait = <<>>
    /\ lf_lock = <<>>
    /\ lf_peers = {}
    /\ lf_h = <<>>
    /\ lf_main = "running"
    /\ ss_cfg = <<>>
    /\ ss_peers = {}
    /\ ss_cleaner = FALSE
    /\ ss_cache = <<>>
    /\ ss_pc = "idle"
    /\ ss_tracked = FALSE
    /\ ss_pass = <<>>
    /\ ss_res = "None"
    /\ bw_delay_shutdown = TRUE
    /\ bw_pc = "running"
    /\ bw_snap = <<>>
    /\ gt_cfg = <<>>
    /\ gt_uptime = <<>>
    /\ gt_out = "idle"
    /\ sb_in = <<>>
    /\ sb_i = 0
    /\ sb_pc = "connect"
    /\ sb_guard = <<>>
    /\ sb_h = <<>>
    /\ am_reconnect = FALSE
    /\ am_pc = "query"
    /\ am_sessions = {}
    /\ am_peers = {}
    /\ am_unseen = <<>>
    /\ am_bridge = <<>>
    /\ am_record = <<>>
    /\ am_errors = {}
    /\ am_exit = <<>>
    /\ px_setup = <<>>
    /\ px_thread = <<>>
    /\ active_proxies = {}
    /\ pr_retry = 0
    /\ pr_p = <<>>
    /\ pr_pc = <<>>
    /\ pr_net = {}
    /\ pr_acc = <<>>
    /\ pr_res = <<>>
    /\ tm_cfg \in [retry_time : 1..MaxRetryTime \cup {1500}, cycle_count : 0..MaxCycles, is_exponential : BOOLEAN]
    /\ tm_self = [t0 |-> 0, cycles_left |-> 0, next_scale |-> <<>>]
    /\ tm_out = <<>>
    /\ tm_pc = "new"
    /\ hs_cfg = <<>>
    /\ hs_hdr = <<>>
    /\ hs_run = <<>>

SpecTimeout ==
    InitTimeout /\ [][TimeoutNext]_vars

InitHandshake ==
    /\ wl_whitelist = <<>>
    /\ wl_addr = Ipv6(2, 0, 0)
    /\ wl_result = "idle"
    /\ p_pkts = <<>>
    /\ p_buf = <<>>
    /\ p_pos = 0
    /\ p_cuts = <<>>
    /\ p_last = ParseIdleMark
    /\ vi_value = {}
    /\ vi_buf = <<>>
    /\ vi_result = [kind |-> "Idle", value |-> {}, varint_len |-> 0]
    /\ d_pkts = <<>>
    /\ d_in = <<>>
    /\ d_reads = 0
    /\ d_fallback = FALSE
    /\ s_skip = 0
    /\ s_pf = FALSE
    /\ s_left = <<>>
    /\ s_seen = FALSE
    /\ k_segs = <<>>
    /\ k_open = FALSE
    /\ u_q = <<>>
    /\ r_skip = 0
    /\ r_backlog = <<>>
    /\ r_pf = FALSE
    /\ r_seen = FALSE
    /\ d_out = <<>>
    /\ h_late = FALSE
    /\ h_fb_calls = 0
    /\ st_cfg = [yggdrasil_protocols |-> <<>>, local |-> <<>>, stun_randomize |-> FALSE]
    /\ st_servers = <<>>
    /\ st_external = <<>>
    /\ st_i = 0
    /\ st_pc = "pass"
    /\ st_watch = <<>>
    /\ st_asked = <<>>
    /\ st_seen = <<>>
    /\ tr_pc = <<>>
    /\ tr_inet = <<>>
    /\ tr_retry = <<>>
    /\ tr_guard = <<>>
    /\ tr_prober = <<>>
    /\ tr_result = <<>>
    /\ tr_map = <<>>
    /\ tr_spawned = {}
    /\ tr_h = <<>>
    /\ rv_pkt = <<>>
    /\ rv_path = "socket"
    /\ rv_send_ack = FALSE
    /\ rv_out = "Idle"
    /\ lf_pc = <<>>
    /\ lf_addr = <<>>
    /\ lf_sessions = {}
    /\ lf_rec_rm = {}
    /\ lf_guard = <<>>
    /\ lf_token = <<>>
    /\ lf_wait = <<>>
    /\ lf_lock = <<>>
    /\ lf_peers = {}
    /\ lf_h = <<>>
    /\ lf_main = "running"
    /\ ss_cfg = <<>>
    /\ ss_peers = {}
    /\ ss_cleaner = FALSE
    /\ ss_cache = <<>>
    /\ ss_pc = "idle"
    /\ ss_tracked = FALSE
    /\ ss_pass = <<>>
    /\ ss_res = "None"
    /\ bw_delay_shutdown = TRUE
    /\ bw_pc = "running"
    /\ bw_snap = <<>>
    /\ gt_cfg = <<>>
    /\ gt_uptime = <<>>
    /\ gt_out = "idle"
    /\ sb_in = <<>>
    /\ sb_i = 0
    /\ sb_pc = "connect"
    /\ sb_guard = <<>>
    /\ sb_h = <<>>
    /\ am_reconnect = FALSE
    /\ am_pc = "query"
    /\ am_sessions = {}
    /\ am_peers = {}
    /\ am_unseen = <<>>
    /\ am_bridge = <<>>
    /\ am_record = <<>>
    /\ am_errors = {}
    /\ am_exit = <<>>
    /\ px_setup = <<>>
    /\ px_thread = <<>>
    /\ active_proxies = {}
    /\ pr_retry = 0
    /\ pr_p = <<>>
    /\ pr_pc = <<>>
    /\ pr_net = {}
    /\ pr_acc = <<>>
    /\ pr_res = <<>>
    /\ tm_cfg = <<>>
    /\ tm_self = <<>>
    /\ tm_out = <<>>
    /\ tm_pc = "new"
    /\ hs_cfg \in {c \in [Sides -> [address : {Ipv6(2, 0, 0), Ipv6(2, 0, 1)},
                                  yggdrasil_protocols : {<<>>, <<"Tcp">>, <<"Tls">>, <<"Quic", "Tls">>,
                                                         <<"Tls", "Quic", "Tcp">>},
                                  yggdrasil_listen : SUBSET {"Tls", "Quic"},
                                  force_nonce_peering_password : BOOLEAN]] :
                ~c["b"].force_nonce_peering_password}
    /\ hs_hdr \in LET own == VERSION_PREFIX \o VERSION_NUMBER
                  nonce == <<"0", "0", "0", "0", "0", "0", "0", "0", "0", "0", "0", "0", "0", "0", "a", "f">>
              IN  {[s \in Sides |->
                        IF s = "a"
                        THEN [version |-> v, protocols |-> self_protocols(hs_cfg["b"]), nonce |-> n]
                        ELSE [version |-> own, protocols |-> self_protocols(hs_cfg["a"]), nonce |-> <<nonce>>]] :
                    v \in {own, VERSION_PREFIX \o <<"x">>, VERSION_PREFIX,
                           <<"o", "t", "h", "e", "r", "-", "v", "0", ".", "1">>},
                    n \in {<<>>, <<nonce>>, <<<<"0", "-">>>>}}
    /\ hs_run = [s \in Sides |-> [pc |-> "header", common |-> <<>>, k |-> 1, modes |-> <<>>, sent |-> 0, result |-> "none"]]

SpecHandshake ==
    InitHandshake /\ [][HsNext]_vars

\* ---------------------------------------------------------------------
\* Claims about the packet parser and the lossy shortcut
\* ---------------------------------------------------------------------

\* index of the type byte of a varint-prefixed packet
TypeIndex(p) ==
    decode_varint(p).varint_len + 1

\* a packet of the wire format: a length of at least one, hence a type byte
IsPacket(p) ==
    Len(p) >= 2

IsTrafficPacket(p) ==
    IsPacket(p) /\ p[TypeIndex(p)] = 9

\* offsets at which a packet of the stream ends, with the stream's start
PacketEnds(pkts) ==
    {0} \cup {Boundaries(pkts, 0)[i] : i \in 1..Len(pkts)}

\* stream offset reached by the sender's reads
ReadOffset(rest) ==
    Len(Flatten(d_pkts)) - Len(rest)

\* the packets of the stream that lie between two packet ends
PacketsBetween(from, to) ==
    LET ends == Boundaries(d_pkts, 0)
        idx == {i \in 1..Len(d_pkts) : from < ends[i] /\ ends[i] <= to}
    IN  SubSeq(d_pkts, IF idx = {} THEN 1 ELSE CHOOSE i \in idx : \A j \in idx : i <= j,
                       IF idx = {} THEN 0 ELSE CHOOSE i \in idx : \A j \in idx : j <= i)

ToDirect(p) ==
    IsTrafficPacket(p) /\ Len(p) <= DpiMtu

ToReliable(p) ==
    ~ToDirect(p) /\ (IsTrafficPacket(p) => d_fallback)

RECURSIVE OutputIsPackets(_, _)
\* out is made of whole packets of the stream, each used once, and may end
\* with the beginning of one more
OutputIsPackets(out, avail) ==
    \/ out = <<>>
    \/ \E i \in avail :
        \/ StartsWith(out, d_pkts[i])
            /\ OutputIsPackets(Drop(out, Len(d_pkts[i])), avail \ {i})
        \/ Len(out) < Len(d_pkts[i]) /\ StartsWith(d_pkts[i], out)

\* C5: the lossy shortcut is transparent.  What ReceiveLossy has written to
\* the router-side socket is at every moment a run of whole packets of the
\* stream given to SendLossy, none of them twice, followed at most by the
\* first bytes of one more packet; this is what byte-for-byte identity of the
\* two streams requires of every state on the way, whatever the chunking.
C5_LossyShortcutTransparent ==
    OutputIsPackets(d_out, 1..Len(d_pkts))

\* C6: a SendLossy::send call outside permanent fallback that is given whole
\* packets sends each traffic packet that fits udp_mtu as one datagram of its
\* own, appends every other packet to the KCP stream in input order, except
\* oversize traffic with the fallback off, which goes nowhere, and sends
\* nothing else.
C6_SenderRoutesCompletePackets ==
    [][(/\ d_in' # d_in
        /\ ~s_pf /\ s_skip = 0 /\ s_left = <<>>
        /\ ReadOffset(d_in) \in PacketEnds(d_pkts)
        /\ ReadOffset(d_in') \in PacketEnds(d_pkts)
        /\ \A i \in 1..Len(d_pkts) : IsPacket(d_pkts[i]))
       => LET chunk == PacketsBetween(ReadOffset(d_in), ReadOffset(d_in'))
          IN  /\ u_q' = u_q \o SelectSeq(chunk, ToDirect)
              /\ Flatten(k_segs') = Flatten(k_segs) \o Flatten(SelectSeq(chunk, ToReliable))]_vars

\* C7: walking the parser over a prefix of a valid stream reports exactly the
\* stream's packet ends, in order, and stops only at the packet the prefix
\* cuts, with TruncatedHeader or with Truncated carrying that packet's length.
C7_ParserFindsPacketBoundaries ==
    LET ends == Boundaries(p_pkts, 0)
    IN  /\ Len(p_cuts) <= Len(ends)
        /\ \A i \in 1..Len(p_cuts) : p_cuts[i] = ends[i]
        /\ p_last.kind \in {"Truncated", "TruncatedHeader", "Invalid"} =>
            /\ p_last.kind # "Invalid"
            /\ Len(p_cuts) < Len(ends)
            /\ p_last.kind = "Truncated" => p_pos + p_last.len = ends[Len(p_cuts) + 1]

\* C8: after SendLossy or ReceiveLossy has classified the first packet of its
\* stream, no call of the parser takes the "meta" branch.
C8_MetaOnlyAtStreamStart ==
    ~h_late

\* ---------------------------------------------------------------------
\* Claims about the whitelist
\* ---------------------------------------------------------------------

\* the subnet key as the specification words it: the first eight octets with
\* a first octet of 0x02 or 0x03 rewritten to 0x02
RewrittenKey(address) ==
    [SubSeq(address, 1, 8) EXCEPT ![1] = IF address[1] \in {2, 3} THEN 2 ELSE address[1]]

\* C9 as stated: with a whitelist configured, a session address is accepted
\* iff it is an entry of the whitelist or its rewritten key equals the key of
\* some 0x03-prefixed entry.
C9_WhitelistAsStated ==
    (wl_result # "idle" /\ wl_whitelist # <<>>) =>
        (wl_result = "accepted" <=>
            \/ wl_addr \in wl_whitelist[1]
            \/ \E e \in wl_whitelist[1] :
                e[1] = 3 /\ RewrittenKey(wl_addr) = RewrittenKey(e))

\* C9, amended: with a whitelist configured, a session address is accepted
\* iff it is a whitelist entry whose first octet is not 0x03, or its own
\* first octet is 0x02 and its octets 2..8 equal those of some 0x03-prefixed
\* entry.  The address's first octet is not rewritten.
C9_WhitelistMatch ==
    (wl_result # "idle" /\ wl_whitelist # <<>>) =>
        (wl_result = "accepted" <=>
            \/ wl_addr \in wl_whitelist[1] /\ wl_addr[1] # 3
            \/ \E e \in wl_whitelist[1] :
                /\ e[1] = 3
                /\ wl_addr[1] = 2
                /\ \A i \in 2..8 : wl_addr[i] = e[i])

\* an address accepted through a subnet entry, not as a literal
C9_Witness ==
    /\ wl_whitelist # <<>>
    /\ wl_result = "accepted"
    /\ wl_addr \notin wl_whitelist[1]

\* ---------------------------------------------------------------------
\* Claims about the external-address monitor
\* ---------------------------------------------------------------------

\* C4: the value on the external-address watch never holds two mappings with
\* the same local address and transport.
C4_NoDuplicateMapping ==
    \A i, j \in 1..Len(st_watch) :
        (st_watch[i].local = st_watch[j].local /\ st_watch[i].protocol = st_watch[j].protocol)
            => i = j

\* a value with several mappings is published although two configured
\* router protocols share a transport
C4_Witness ==
    /\ Len(st_watch) >= 2
    /\ \E i, j \in 1..Len(st_cfg.yggdrasil_protocols) :
        /\ i # j
        /\ into_NetworkProtocol(st_cfg.yggdrasil_protocols[i])
            = into_NetworkProtocol(st_cfg.yggdrasil_protocols[j])

\* C23 as stated: a check of active_sessions that finds a bridge puts the
\* monitor back to polling, and one that finds none leaves it suspended.
C23_PollsWhileBridgeActive ==
    /\ st_seen = <<TRUE>> => st_pc # "suspended"
    /\ st_seen = <<FALSE>> => st_pc = "suspended"

\* the flag of the server named n for a protocol, in a server list
FlagOf(servers, n, protocol) ==
    \E i \in 1..Len(servers) : servers[i].server = n /\ Server_set(servers[i], protocol)

\* position of the server named n in a server list
PositionOf(servers, n) ==
    CHOOSE i \in 1..Len(servers) : servers[i].server = n

\* C24: in the pass for one (local, transport) pair the servers are asked in
\* list order up to the first success; a server whose flag for the transport
\* is false is not asked unless every flag for the transport is false, and
\* then all are set again; a failed lookup clears the flag.
C24_Blacklisting ==
    [][st_i' = st_i + 1 =>
        LET protocol == PassPairs[st_i + 1][2]
            names == {st_servers[i].server : i \in 1..Len(st_servers)}
            all_unset == \A n \in names : ~FlagOf(st_servers, n, protocol)
            eligible(n) == all_unset \/ FlagOf(st_servers, n, protocol)
            asked == st_asked'
            asked_names == {asked[k].server : k \in 1..Len(asked)}
            succeeded == asked # <<>> /\ Last(asked).answer # "Err"
        IN  /\ \A k \in 1..Len(asked) : eligible(asked[k].server)
            /\ \A j, k \in 1..Len(asked) :
                    j < k => /\ PositionOf(st_servers', asked[j].server)
                                < PositionOf(st_servers', asked[k].server)
                             /\ asked[j].answer = "Err"
            /\ \A n \in names :
                    (eligible(n) /\ n \notin asked_names) =>
                        /\ succeeded
                        /\ PositionOf(st_servers', n) > PositionOf(st_servers', Last(asked).server)
            /\ \A n \in names :
                    FlagOf(st_servers', n, protocol) <=>
                        /\ eligible(n)
                        /\ ~\E k \in 1..Len(asked) : asked[k].server = n /\ asked[k].answer = "Err"
            /\ Len(st_external') = Len(st_external) + (IF succeeded THEN 1 ELSE 0)]_vars

\* the first server failed and the second answered for one transport while
\* every flag of the other transport is false, waiting for its reset
C24_Witness ==
    /\ Len(st_asked) = 2
    /\ st_asked[1].answer = "Err" /\ st_asked[2].answer # "Err"
    /\ \A i \in 1..Len(st_servers) : ~st_servers[i].tcp_status
    /\ \E i \in 1..Len(st_servers) : ~st_servers[i].udp_status
    /\ \E i \in 1..Len(st_servers) : st_servers[i].udp_status

\* ---------------------------------------------------------------------
\* Claims about traverse_udp
\* ---------------------------------------------------------------------

TraverseEnded(t) ==
    tr_pc[t] \in {"done", "dropped"}

\* C3 as stated: every key of active_inet_traversal belongs to a live
\* traverse_udp call, the one that inserted it.
C3_EntryOwnerLive ==
    \A k \in DOMAIN tr_map : TraverseLive(tr_map[k])

\* C3: every key of active_inet_traversal was inserted by exactly the call
\* registered under it, and that call is live, or it has returned or been
\* dropped and the removal task its drop guard spawned has not run yet.
C3_EntryOwnerLiveOrRemovalPending ==
    \A k \in DOMAIN tr_map :
        LET t == tr_map[k]
        IN  /\ tr_inet[t] = <<k>>
            /\ tr_h[t].inserted
            /\ \/ TraverseLive(t) /\ tr_guard[t]
               \/ TraverseEnded(t) /\ <<t, k>> \in tr_spawned

\* an entry outlives the call that inserted it
C3_Witness ==
    \E k \in DOMAIN tr_map :
        /\ TraverseEnded(tr_map[k])
        /\ <<tr_map[k], k>> \in tr_spawned

IsSuccess(result) ==
    result = <<"Ok", "Socket">>

LastErrorOrTimedOut(t) ==
    IF tr_h[t].err # "None" THEN tr_h[t].err ELSE "TimedOut"

\* C10 as stated: a call returns the socket iff a SuccessResponse was
\* delivered to its loop; every other return is the last socket error, or
\* TimedOut when there was none.
C10_ResultAsStated ==
    \A t \in Callers :
        tr_pc[t] = "done" =>
            /\ IsSuccess(tr_result[t]) <=> tr_h[t].ack
            /\ ~IsSuccess(tr_result[t]) => tr_result[t][2] = LastErrorOrTimedOut(t)

\* C10: a call returns the socket iff a SuccessResponse was delivered to its
\* loop; a call that found its session id registered returns AlreadyExists;
\* every other return is the last socket error, or TimedOut when there was none.
C10_Result ==
    \A t \in Callers :
        tr_pc[t] = "done" =>
            /\ IsSuccess(tr_result[t]) <=> tr_h[t].ack
            /\ ~IsSuccess(tr_result[t]) =>
                IF tr_inet[t] # <<>> /\ ~tr_h[t].inserted
                THEN tr_result[t] = <<"Err", "AlreadyExists">>
                ELSE tr_result[t][2] = LastErrorOrTimedOut(t)

\* one call returned the socket after an Indication ended its loop, the other
\* returned an error recorded in its loop
C10_Witness ==
    \E t, u \in Callers :
        /\ tr_pc[t] = "done" /\ IsSuccess(tr_result[t]) /\ tr_prober[t].break
        /\ tr_pc[u] = "done" /\ tr_result[u] \in {<<"Ok", e>> : e \in IoErrors}

\* C19: a call whose loop was ended by an Indication (a STUN Indication or a
\* packet that starts with b"jmpr") returns the socket, with or without a
\* SuccessResponse before it.
C19_IndicationSucceeds ==
    \A t \in Callers :
        (tr_pc[t] = "done" /\ tr_prober[t].break) => IsSuccess(tr_result[t])

\* the counter of a call grows in this step of its loop
CounterGrows(t) ==
    /\ tr_pc[t] = "wait"
    /\ tr_pc'[t] = "loop"
    /\ tr_prober'[t].counter > tr_prober[t].counter

\* the step is the one a delivered Request makes: the prober enters ACK mode
\* and half of retry_count is added to the counter
RequestStep(t) ==
    /\ ~tr_prober[t].send_ack
    /\ tr_prober'[t].send_ack
    /\ tr_prober'[t].counter = tr_prober[t].counter + (tr_retry[t] \div 2)

\* the step is the one the first SuccessResponse makes: the counter is set to 2
AckStep(t) ==
    /\ ~tr_prober[t].got_remote_ack
    /\ tr_prober'[t].got_remote_ack
    /\ tr_prober'[t].counter = 2

\* the counter is extended by a Request only, by half of retry_count and
\* together with the move to ACK mode, and ACK mode is never left: a call
\* gets the extension at most once
ExtendedOnce ==
    \A t \in Callers :
        /\ CounterGrows(t) => RequestStep(t) \/ AckStep(t)
        /\ (tr_prober[t].send_ack /\ tr_pc'[t] \in {"loop", "wait", "done"}) => tr_prober'[t].send_ack

\* C20 as stated: a Request puts the prober into ACK mode and adds half of
\* retry_count to the counter, at most once in a call; the loop makes at most
\* retry_count + retry_count / 2 iterations that send.
C20_IterationsAsStated ==
    /\ [][ExtendedOnce]_vars
    /\ [](\A t \in Callers : tr_h[t].sends <= tr_retry[t] + (tr_retry[t] \div 2))

\* C20: a Request puts the prober into ACK mode and adds half of retry_count
\* to the counter, at most once in a call; the iterations made and the
\* iterations left never exceed retry_count, plus retry_count / 2 in ACK mode,
\* plus 2 after a SuccessResponse: at most retry_count + retry_count / 2 + 2
\* iterations that send.
C20_Iterations ==
    /\ [][ExtendedOnce]_vars
    /\ [](\A t \in Callers :
            tr_pc[t] \in {"loop", "wait", "done"} /\ tr_h[t].sends > 0 =>
                tr_h[t].sends + tr_prober[t].counter
                    <= tr_retry[t] + (IF tr_prober[t].send_ack THEN tr_retry[t] \div 2 ELSE 0)
                        + (IF tr_h[t].ack THEN 2 ELSE 0))

\* a call got a Request in its last regular iteration and a SuccessResponse in
\* the last added one, and returned after retry_count + retry_count / 2 + 2
\* iterations
C20_Witness ==
    \E t \in Callers :
        /\ tr_pc[t] = "done"
        /\ tr_retry[t] = MaxRetry
        /\ tr_h[t].sends = tr_retry[t] + (tr_retry[t] \div 2) + 2

\* C21: after the first SuccessResponse the prober is in ACK mode (so every
\* further message is a SuccessResponse) and the iterations made since plus
\* the counter never exceed 2, whatever arrives; a call that got a
\* SuccessResponse returns the socket after one or two further messages.
C21_FinalRetransmissions ==
    \A t \in Callers :
        /\ (tr_pc[t] \in {"loop", "wait", "done"} /\ tr_prober[t].got_remote_ack) =>
                /\ tr_h[t].ack
                /\ tr_prober[t].send_ack
                /\ tr_h[t].after + tr_prober[t].counter <= 2
        /\ (tr_pc[t] = "done" /\ tr_h[t].ack) =>
                /\ tr_h[t].after \in 1..2
                /\ IsSuccess(tr_result[t])

\* one call returned after two messages behind the SuccessResponse, the other
\* after one, its loop ended by an Indication
C21_Witness ==
    \E t, u \in Callers :
        /\ tr_pc[t] = "done" /\ tr_h[t].ack /\ tr_h[t].after = 2 /\ tr_h[t].err # "None"
        /\ tr_pc[u] = "done" /\ tr_h[u].ack /\ tr_h[u].after = 1 /\ tr_prober[u].break

\* the packet is a STUN BINDING message with the transaction id of session 7
\* and a MessageIntegrity made with the secret of session 7
Authenticated ==
    /\ rv_pkt.form = "stun"
    /\ rv_pkt.method = "BINDING"
    /\ rv_pkt.transaction_id = <<7>>
    /\ rv_pkt.integrity = <<"s7">>

\* C22 as stated: only an authenticated BINDING message of this session is
\* handed to the match of the prober loop, on the socket and in the listener.
C22_OnlyAuthenticated ==
    rv_out \notin {"Idle", "None"} => Authenticated

\* C22: only an authenticated BINDING message of this session is handed to
\* the match of the prober loop, except that a packet read from the connected
\* socket that starts with b"jmpr" is taken for an Indication unchecked.
C22_OnlyAuthenticatedOrRawPrefix ==
    rv_out \notin {"Idle", "None"} =>
        \/ Authenticated /\ rv_out = rv_pkt.class
        \/ rv_path = "socket" /\ rv_pkt.form = "jmpr" /\ rv_out = "Indication"

\* a SuccessResponse of this session signed with another session's secret
\* came through the listener and was dropped
C22_Witness ==
    /\ rv_path = "listener"
    /\ rv_pkt.form = "stun" /\ rv_pkt.method = "BINDING"
    /\ rv_pkt.transaction_id = <<7>> /\ rv_pkt.integrity = <<"s8">>
    /\ rv_pkt.class = "SuccessResponse"
    /\ rv_out = "None"

\* C37: when traverse_udp returns the socket at one daemon, that daemon has
\* matched a datagram of the other and the other has matched a datagram of
\* this one (matched: received, integrity checked, given to the match).
C37_SuccessMeansBothDirections ==
    \A s \in Callers :
        pr_res[s] = <<"Ok", "Socket">> =>
            /\ pr_acc[s] # {}
            /\ pr_acc[CHOOSE o \in Callers : o # s] # {}

\* daemon a returned the socket while daemon b is still in its loop
C37_Witness ==
    /\ pr_res["a"] = <<"Ok", "Socket">>
    /\ pr_pc["b"] # "done"
    /\ "SuccessResponse" \in pr_acc["a"]

\* ---------------------------------------------------------------------
\* Claims about session records, peers and shutdown
\* ---------------------------------------------------------------------

\* C1: when the process has exited, remove_peer has been issued for every uri
\* the router added on an add_peer of start_bridge.
C1_RemovePeerBeforeExit ==
    lf_main = "exited" => lf_h.added \subseteq lf_h.removed

Whitelisted ==
    ss_cfg.whitelist = <<>> \/ whitelist_contains(ss_cfg.whitelist[1], Ipv6(2, 0, 0))

\* C25 as stated: with avoid_redundant_peering on, a pass over a whitelisted,
\* untracked session skips it exactly when the peers snapshot has an entry of
\* its address that is up and has a remote.
C25_SkipsIffUpPeer ==
    (ss_pass # <<>> /\ ~ss_pass.tracked /\ Whitelisted /\ ss_cfg.avoid_redundant_peering) =>
        (ss_pass.spawned <=>
            ~\E p \in ss_peers : p.address = <<Ipv6(2, 0, 0)>> /\ p.up /\ p.remote # <<>>)

\* failed_yggdrasil_traversal of the address, 0 without a cache entry
FailedTraversals(cache) ==
    IF cache = <<>> THEN 0 ELSE cache[1].failed_yggdrasil_traversal

\* C26 as stated: the step that ends the traversal sets failed_traversals to 0
\* on success and adds 1 on every failure, and only that step and the sweeper
\* change it.
C26_CountsEveryFailure ==
    [][/\ (ss_pc = "traverse" /\ ss_pc' # "traverse") =>
            FailedTraversals(ss_cache') =
                IF ss_res' = "Ok" THEN 0 ELSE FailedTraversals(ss_cache) + 1
       /\ FailedTraversals(ss_cache') # FailedTraversals(ss_cache) =>
            \/ ss_pc = "traverse" /\ ss_pc' # "traverse"
            \/ ss_cache' = <<>>]_vars

\* C26: the step that ends the traversal sets failed_traversals to 0 on
\* success, adds 1 when the traversal ran and failed, and leaves it alone when
\* the traversal could not be started; only that step and the sweeper change it.
C26_CountsFailuresOfStartedTraversals ==
    [][/\ (ss_pc = "traverse" /\ ss_pc' # "traverse") =>
            FailedTraversals(ss_cache') =
                IF ss_res' = "Ok" THEN 0
                ELSE IF ss_res' = "Unsuccessful" THEN FailedTraversals(ss_cache) + 1
                ELSE FailedTraversals(ss_cache)
       /\ FailedTraversals(ss_cache') # FailedTraversals(ss_cache) =>
            \/ ss_pc = "traverse" /\ ss_pc' # "traverse"
            \/ ss_cache' = <<>>]_vars

\* after one counted failure a traversal could not be started and the task
\* is about to end with the count still 1
C26_Witness ==
    /\ ss_res = "Failed"
    /\ ss_pc = "exit"
    /\ FailedTraversals(ss_cache) = 1

\* the peer is given up on: its failures reached the limit or the cache says
\* it has no jumper
GivenUp ==
    /\ ss_cache # <<>>
    /\ \/ /\ ss_cfg.failed_yggdrasil_traversal_limit # <<>>
          /\ ss_cache[1].failed_yggdrasil_traversal >= ss_cfg.failed_yggdrasil_traversal_limit[1]
       \/ ss_cache[1].jumper_supported = <<FALSE>>

\* C27 as stated: whenever the peer is given up on, the sweeper that clears
\* the cache is running.
C27_SweeperUnderEveryConfiguration ==
    GivenUp => ss_cleaner

\* position of the task in connect_session
Rank(pc) ==
    CASE pc = "start" -> 1 [] pc = "traverse" -> 2 [] pc = "try_session" -> 3
      [] pc = "exit" -> 4 [] OTHER -> 0

C33_ClosedWindow ==
    gt_out # "idle" =>
        (gt_out = "aborted" <=>
            /\ gt_uptime # <<>>
            /\ \E k \in 1..MaxUptime :
                /\ k * gt_cfg.inactivity_delay_period <= gt_uptime[1]
                /\ gt_uptime[1] <= k * gt_cfg.inactivity_delay_period + gt_cfg.inactivity_delay)

\* C33: the attempt is aborted exactly when the uptime is known, is not P
\* itself and lies in [k*P, k*P + D) for some k >= 1.
C33_HalfOpenWindow ==
    gt_out # "idle" =>
        (gt_out = "aborted" <=>
            /\ gt_uptime # <<>>
            /\ gt_uptime[1] # gt_cfg.inactivity_delay_period
            /\ \E k \in 1..MaxUptime :
                /\ k * gt_cfg.inactivity_delay_period <= gt_uptime[1]
                /\ gt_uptime[1] < k * gt_cfg.inactivity_delay_period + gt_cfg.inactivity_delay)

\* an uptime of exactly two periods was aborted
C33_Witness ==
    /\ gt_out = "aborted"
    /\ gt_uptime = <<2 * gt_cfg.inactivity_delay_period>>
    /\ gt_cfg.inactivity_delay = 1

\* C31 as stated: in mode Any add_peer is issued only after every router
\* listen url of the protocol's scheme was dialled and none gave a
\* connection; in mode AsClient (the spec's ToEndpoint) add_peer is never
\* issued and bridge() runs only over a connection that was made; in mode
\* AsServer (the spec's AsEndpoint) no url is dialled.
C31_ClientFirstThenFallback ==
    /\ sb_in.connection_mode = "Any" /\ sb_h.add_peer # <<>> =>
        /\ Len(sb_h.dialled) =
                Cardinality({j \in 1..Len(sb_in.yggdrasil_listen) :
                                sb_in.yggdrasil_listen[j] = sb_in.protocol})
        /\ \A k \in 1..Len(sb_h.dialled) : sb_h.dialled[k] # "connected"
    /\ sb_in.connection_mode = "AsClient" =>
        /\ sb_h.add_peer = <<>>
        /\ sb_pc \in {"bridge", "returned"} =>
                \E k \in 1..Len(sb_h.dialled) : sb_h.dialled[k] = "connected"
    /\ sb_in.connection_mode = "AsServer" => sb_h.dialled = <<>>

\* C38 as stated: remove_peer is given the very string add_peer was given.
C38_SameString ==
    sb_h.remove_peer # <<>> => sb_h.remove_peer = sb_h.add_peer

\* C38: remove_peer is given the string add_peer was given without its
\* query: the two are the same string exactly when no password was
\* negotiated, and with a password add_peer's string is remove_peer's
\* followed by "?password=" and the password.
C38_SameUriWithoutQuery ==
    sb_h.remove_peer # <<>> =>
        /\ sb_h.add_peer # <<>>
        /\ sb_h.add_peer[1] =
                IF sb_in.server_password = <<>> THEN sb_h.remove_peer[1]
                ELSE sb_h.remove_peer[1] \o <<"?password=", sb_in.server_password[1]>>
        /\ \A k \in 1..Len(sb_h.remove_peer[1]) : sb_h.remove_peer[1][k] # "?password="

\* the guard has sent remove_peer for a peer added with a password
C38_Witness ==
    /\ sb_h.remove_peer # <<>>
    /\ sb_in.server_password # <<>>
    /\ sb_pc = "returned"

\* C32 as stated: with reconnect on the monitor never returns an error and
\* the process does not exit over the admin API; with reconnect off the
\* first admin-API error makes the monitor return Err, and the exit code is 1.
C32_RecoverableIffReconnect ==
    /\ am_reconnect => am_pc # "returned_err" /\ am_exit = <<>>
    /\ ~am_reconnect /\ am_errors # {} => am_pc = "returned_err"
    /\ am_exit # <<>> => am_exit = <<1>> /\ am_errors # {}

\* C39: whenever the monitor is in reconnect() both watches hold an empty
\* list, and a bridge running at that time leaves its loop and has its
\* active_sessions record removed.
C39_ResetThenBridgesEnd ==
    /\ [](am_pc = "reconnect" => am_sessions = {} /\ am_peers = {})
    /\ \A b \in 1..MaxSessions :
        (am_pc = "reconnect" /\ am_bridge[b] = "running")
            ~> (am_bridge[b] = "none" /\ ~am_record[b])

\* the monitor is in reconnect() after an I/O error and a bridge has left
\* its loop over the emptied list, its record not yet removed
C39_Witness ==
    /\ am_pc = "reconnect"
    /\ "io" \in am_errors
    /\ \E b \in 1..MaxSessions : am_bridge[b] = "closed" /\ am_record[b]

\* C36 as stated, in its finite form: active_proxies holds only ids of
\* relay threads that are still running, so the id of a thread that has
\* exited is absent (the guard's removal is part of the exit).
C36_OnlyRunningThreads ==
    \A t \in active_proxies : px_thread[t] = "running"

\* ---------------------------------------------------------------------
\* Claims about the handshake
\* ---------------------------------------------------------------------

Other(s) ==
    CHOOSE o \in Sides : o # s

\* both sides advertise the protocol with a listener
BothServerAvailable(s, protocol) ==
    /\ protocol \in hs_cfg[s].yggdrasil_listen
    /\ protocol \in hs_cfg[Other(s)].yggdrasil_listen

\* the mode a side selected for a protocol, as a set (empty before the round)
ModesOf(s, protocol) ==
    {hs_run[s].modes[i][2] : i \in {j \in 1..Len(hs_run[s].modes) : hs_run[s].modes[j][1] = protocol}}

\* C11: when both sides advertise server_available for TLS or QUIC,
\* the side whose own address sorts lower selects AsClient (it dials its router)
\* and the side whose address sorts higher selects AsServer (add_peer).
C11_LowerDials ==
    \A s \in Sides : \A protocol \in {"Tls", "Quic"} :
        BothServerAvailable(s, protocol) =>
            /\ Ipv6Less(hs_cfg[s].address, hs_cfg[Other(s)].address)
                    => ModesOf(s, protocol) \subseteq {"AsClient"}
            /\ Ipv6Less(hs_cfg[Other(s)].address, hs_cfg[s].address)
                    => ModesOf(s, protocol) \subseteq {"AsServer"}

\* the side rejected the header it received
HeaderRejected(s) ==
    hs_run[s].result \in {"IncompatibleVersion", "BadNonce", "MissingNonce"}

\* the side has processed the header it received
HeaderSeen(s) ==
    hs_run[s].pc # "header"

\* C12 as stated: a side rejects the peer header, with no candidate address
\* sent, iff the version it received does not start with VERSION_PREFIX.
C12_RejectIffNoPrefix ==
    \A s \in Sides :
        HeaderSeen(s) =>
            /\ HeaderRejected(s) <=> ~StartsWith(hs_hdr[s].version, VERSION_PREFIX)
            /\ HeaderRejected(s) => hs_run[s].sent = 0

\* C12: a side rejects the peer header for its version, with no candidate
\* address sent, iff the version does not start with VERSION_PREFIX; besides
\* that it rejects a header only for a nonce that does not parse, or for a
\* missing nonce when force_nonce_peering_password is set.
C12_VersionRejectIffNoPrefix ==
    \A s \in Sides :
        HeaderSeen(s) =>
            /\ hs_run[s].result = "IncompatibleVersion"
                    <=> ~StartsWith(hs_hdr[s].version, VERSION_PREFIX)
            /\ HeaderRejected(s) <=>
                    \/ ~StartsWith(hs_hdr[s].version, VERSION_PREFIX)
                    \/ hs_hdr[s].nonce # <<>> /\ ~Nonce_try_from(hs_hdr[s].nonce[1])
                    \/ hs_hdr[s].nonce = <<>> /\ hs_cfg[s].force_nonce_peering_password
            /\ HeaderRejected(s) => hs_run[s].sent = 0

\* side a rejected the header for its version while side b went on
C12_Witness ==
    /\ hs_run["a"].result = "IncompatibleVersion"
    /\ hs_run["a"].sent = 0
    /\ hs_run["b"].pc = "round"

\* C18: for TLS and QUIC, two sides with distinct addresses that both selected
\* a mode selected complementary modes: one AsClient, the other AsServer.
C18_ComplementaryModes ==
    \A protocol \in {"Tls", "Quic"} :
        (/\ hs_cfg["a"].address # hs_cfg["b"].address
         /\ ModesOf("a", protocol) # {}
         /\ ModesOf("b", protocol) # {})
            => ModesOf("a", protocol) \cup ModesOf("b", protocol) = {"AsClient", "AsServer"}

\* both sides selected a mode for QUIC while exactly one of them has a listener
C18_Witness ==
    /\ hs_cfg["a"].address # hs_cfg["b"].address
    /\ ("Quic" \in hs_cfg["a"].yggdrasil_listen) # ("Quic" \in hs_cfg["b"].yggdrasil_listen)
    /\ ModesOf("a", "Quic") # {}
    /\ ModesOf("b", "Quic") # {}

\* C40 as stated: the two sides hold the common protocols in the same
\* order, Tcp before Quic before Tls, and the n-th candidate address a side
\* receives, which is the n-th the other side sent, is of the protocol of
\* the round the side uses it in.
C40_RoundsInStep ==
    /\ hs_run["a"].common # <<>> /\ hs_run["b"].common # <<>> =>
        /\ Len(hs_run["a"].common) = Len(hs_run["b"].common)
        /\ \A i \in 1..Len(hs_run["a"].common) :
            /\ i <= Len(hs_run["b"].common) =>
                    hs_run["a"].common[i][1].protocol = hs_run["b"].common[i][1].protocol
            /\ \A j \in 1..(i - 1) :
                    <<hs_run["a"].common[j][1].protocol, hs_run["a"].common[i][1].protocol>>
                        \in {<<"Tcp", "Quic">>, <<"Tcp", "Tls">>, <<"Quic", "Tls">>}
    /\ \A n \in 1..Len(hs_run["a"].modes) :
            n <= Len(hs_run["b"].modes) =>
                hs_run["a"].modes[n][1] = hs_run["b"].modes[n][1]

\* no ActiveCancellationToken is left: the root's unit, the cancelled() futures
\* and the remove_peer futures have dropped theirs
NoActiveToken ==
    /\ lf_main # "running"
    /\ \A t \in Tasks : ~lf_token[t] /\ lf_wait[t] \notin {"waiting", "missed"}

\* C13: CancellationRoot::cancel has returned only when no active token is
\* left, and once cancel was called and no active token is left it returns.
C13_CancelReturnsWithLastToken ==
    /\ [](lf_main = "exited" => NoActiveToken)
    /\ ((lf_main = "cancelling" /\ NoActiveToken) ~> (lf_main = "exited"))

\* cancel was called and is held back by the token of a remove_peer future alone
C13_Witness ==
    /\ lf_main = "cancelling"
    /\ \E t \in Tasks : lf_token[t] /\ lf_guard[t] \in {"spawned", "issued"}
    /\ \A t \in Tasks : lf_wait[t] \notin {"waiting", "missed"}

\* C29 as stated: a bridge entered while the record of its address is Bridge
\* returns without running, and the bridge that was running then keeps its
\* Bridge record for as long as it runs.
C29_RunningBridgeKeepsRecord ==
    \A p \in lf_h.refused :
        /\ lf_pc[p[1]] \in {"exit", "ended"}
        /\ lf_pc[p[2]] = "bridge" => <<lf_addr[p[2]], "Bridge">> \in lf_sessions

\* C34 as stated: no two tasks of one remote address are live at once, a task
\* being live from its spawn until connect_session, bridge included, returned.
C34_OneLiveTaskPerAddress ==
    \A t, u \in Tasks :
        (/\ t # u
         /\ lf_pc[t] \in {"session", "add_peer", "accept", "bridge"}
         /\ lf_pc[u] \in {"session", "add_peer", "accept", "bridge"})
            => lf_addr[t] # lf_addr[u]

\* C35 as stated: no cancelled() future is left unnotified: one created after
\* cancel() notified the waiters completes as well.
C35_CancellationNeverLost ==
    \A t \in Tasks : lf_wait[t] # "missed"

\* the snapshot the bridge handled last has an up peer with the bridge's uri
HasUpPeer ==
    \E p \in bw_snap[1] : p.up /\ p.remote = <<"tcp://[::1]:1">>

\* C30: the bridge fails as not connected only on a snapshot handled after the
\* grace period that has no up peer with its uri, and no snapshot handled
\* after the grace period without such a peer leaves it running.
C30_GraceThenFirstSnapshotFails ==
    /\ bw_pc = "not_connected" => ~bw_delay_shutdown /\ ~HasUpPeer
    /\ (bw_pc \in {"running", "wrong_node"} /\ ~bw_delay_shutdown) => HasUpPeer
    /\ (bw_snap # <<>> /\ bw_delay_shutdown) => bw_pc # "not_connected"

\* after the grace period a snapshot whose only peer with the bridge's uri is
\* down has failed the bridge
C30_Witness ==
    /\ bw_pc = "not_connected"
    /\ \E p \in bw_snap[1] : ~p.up /\ p.remote = <<"tcp://[::1]:1">> /\ p.address = <<Ipv6(2, 0, 0)>>
    /\ Cardinality(bw_snap[1]) = 2

\* C14: decode_varint applied to the canonical encoding of a 64-bit value v
\* returns Ok with value = v and varint_len = ceil(bits(v) / 7), at least 1.
C14_DecodesEveryU64 ==
    vi_result.kind # "Idle" =>
        LET bits == IF vi_value = {} THEN 0
                    ELSE 1 + CHOOSE b \in vi_value : \A c \in vi_value : c <= b
            len == IF bits = 0 THEN 1 ELSE (bits + 6) \div 7
        IN  vi_result = [kind |-> "Ok", value |-> vi_value, varint_len |-> len]

\* C15: Timeout::new_exponential(T, n) yields exactly n durations, each twice
\* the previous one, whose sum is T * n up to the rounding of t0 (T = 1500,
\* n = 4 gives 400, 800, 1600, 3200); Timeout::new_linear(T, n) yields exactly
\* n durations, all equal to T.
C15_TimeoutYields ==
    tm_pc \in {"done", "panic"} =>
        LET T == tm_cfg.retry_time
            n == tm_cfg.cycle_count
            RECURSIVE sum(_)
            sum(s) == IF s = <<>> THEN 0 ELSE s[1] + sum(Tail(s))
            diff == sum(tm_out) - T * n
        IN  /\ tm_pc = "done"
            /\ Len(tm_out) = n
            /\ IF tm_cfg.is_exponential
               THEN /\ \A i \in 2..n : tm_out[i] = 2 * tm_out[i - 1]
                    /\ 2 * diff <= Pow2(n) - 1
                    /\ 2 * diff >= 1 - Pow2(n)
                    /\ (T = 1500 /\ n = 4) => tm_out = <<400, 800, 1600, 3200>>
               ELSE \A i \in 1..n : tm_out[i] = T

\* C16: direct packets that arrived while a KCP packet was partially written
\* are written right after that packet is completed: whenever the receiver is
\* not inside a packet (skip = 0) the backlog has been written out.
C16_BacklogWrittenOnCompletion ==
    r_skip = 0 => r_backlog = <<>>

\* C17: once permanent_fallback is set it stays set, every byte read from then
\* on is appended to the KCP stream in order and no datagram is added to the
\* direct path; in the call that sets it, the bytes from the anomaly to the end
\* of the chunk are appended to the KCP stream and nothing is held back.
C17_FallbackPermanent ==
    [][LET read == Len(d_in) - Len(d_in')
           buf == s_left \o Take(d_in, read)
           pushed == Drop(Flatten(k_segs'), Len(Flatten(k_segs)))
       IN  /\ s_pf =>
                /\ s_pf'
                /\ Len(u_q') <= Len(u_q)
                /\ read > 0 => Flatten(k_segs') = Flatten(k_segs) \o buf
           /\ (~s_pf /\ s_pf') =>
                /\ s_left' = <<>>
                /\ \E j \in 0..(Len(buf) - 1) :
                    /\ parse_yggdrasil_packet(Drop(buf, j)).kind = "Invalid"
                    /\ Len(pushed) >= Len(buf) - j
                    /\ Drop(pushed, Len(pushed) - (Len(buf) - j)) = Drop(buf, j)]_vars

\* the sender met the anomaly in its first chunk and the traffic packet behind
\* it went through a later call of send
C17_Witness ==
    /\ d_pkts = <<ZeroLen, TrafficSmall>>
    /\ s_pf
    /\ h_fb_calls > 0
    /\ d_in = <<>>

=============================================================================
